---------------------------- MODULE Spec2Model ----------------------------
(***************************************************************************)
(* Cube Parkour: the session controller (App) and the per-frame            *)
(* simulation step (GameCanvas.update), as a state machine.                *)
(*                                                                         *)
(* Units: velocities are in 1/10000 px per tick (so -5 is written -50000   *)
(* and the factor 1.5 is *15 \div 10).  Positions and sizes are pixels in  *)
(* the session model, whose frames draw the outcome of the kinematics,     *)
(* and 1/10000 px in the simulation core, which computes the kinematics.   *)
(* Score multipliers are IEEE-754 doubles, as the JavaScript numbers of    *)
(* the source are: a double is a record [m, e] of value m * 2^e with       *)
(* 2^52 <= m < 2^53, m held as five little-endian limbs of 12 bits.        *)
(***************************************************************************)
EXTENDS Integers, Sequences, FiniteSets, TLC

(***************************************************************************)
(* Program constants.                                                      *)
(***************************************************************************)
PLAYER_SIZE == 32
TILE_SIZE == 40
DEFAULT_MAX_HP == 100
TANKY_MAX_HP == 150
INITIAL_LIVES == 3
HARDCORE_LIVES == 1
DEFAULT_DAMAGE == 1000
INVULNERABLE_TICKS == 60
KNOCKBACK_VY == -50000

(***************************************************************************)
(* Bounds of the model.                                                    *)
(***************************************************************************)
MaxTime == 2
MaxDeaths == 1
MaxPlayTime == 5
MaxPlayDeaths == 3
MaxLongTime == 63
MaxLongDeaths == 1
MaxRestartsIn == 3
MaxDeathsIn == 5
MaxRuns == 2
MaxTimers == 2
MaxCoreTime == 4
MaxIdleTime == 50
MaxKeyTime == 4
MaxPresses == 4

MaxCrouchTime == 5

\* the effect instances of the game loop and the frame callbacks requested
MaxLoops == 4

MaxFrameIds == 6

ModifierKeys ==
  {"energized", "lowGravity", "highGravity", "hardcore", "oldSchool", "tanky"}

NoModifiers == [k \in ModifierKeys |-> FALSE]

(***************************************************************************)
(* IEEE-754 double multiplication (round to nearest, ties to even) and     *)
(* Math.floor, on positive normal doubles.                                 *)
(***************************************************************************)
Limb == 4096

Pow2(n) == IF n = 0 THEN 1 ELSE IF n = 1 THEN 2 ELSE IF n = 2 THEN 4
           ELSE IF n = 3 THEN 8 ELSE IF n = 4 THEN 16 ELSE IF n = 5 THEN 32
           ELSE IF n = 6 THEN 64 ELSE IF n = 7 THEN 128 ELSE IF n = 8 THEN 256
           ELSE IF n = 9 THEN 512 ELSE IF n = 10 THEN 1024
           ELSE IF n = 11 THEN 2048 ELSE 4096

\* limb i (1-based) of a limb sequence, 0 beyond its end
LimbAt(s, i) == IF i >= 1 /\ i <= Len(s) THEN s[i] ELSE 0

\* column sums of the schoolbook product of two 5-limb mantissas
Column(a, b, k) ==
  LET Term(i) == IF k + 1 - i >= 1 /\ k + 1 - i <= 5 THEN a[i] * b[k + 1 - i] ELSE 0
  IN Term(1) + Term(2) + Term(3) + Term(4) + Term(5)

RECURSIVE Carry(_, _, _, _)
Carry(a, b, k, c) ==
  IF k > 10 THEN <<>>
  ELSE LET v == Column(a, b, k) + c
       IN <<v % Limb>> \o Carry(a, b, k + 1, v \div Limb)

\* the exact 10-limb product of two mantissas
MulLimbs(a, b) == Carry(a, b, 1, 0)

RECURSIVE Increment(_, _)
Increment(s, i) ==
  IF i > Len(s) THEN s
  ELSE IF s[i] + 1 < Limb \/ i = Len(s) THEN [s EXCEPT ![i] = s[i] + 1]
  ELSE Increment([s EXCEPT ![i] = 0], i + 1)

\* a * b as the double nearest to the exact product
DoubleMul(a, b) ==
  LET p == MulLimbs(a.m, b.m)
      r == IF p[9] >= 512 THEN 5 ELSE 4           \* shift is 48 + r bits
      q == [i \in 1..5 |->
              (p[i + 4] \div Pow2(r)) + (LimbAt(p, i + 5) % Pow2(r)) * Pow2(12 - r)]
      roundBit == (p[5] \div Pow2(r - 1)) % 2
      sticky == (p[5] % Pow2(r - 1) # 0) \/ p[1] # 0 \/ p[2] # 0 \/ p[3] # 0 \/ p[4] # 0
      up == roundBit = 1 /\ (sticky \/ q[1] % 2 = 1)
      m1 == IF up THEN Increment(q, 1) ELSE q
      e1 == a.e + b.e + 48 + r
  IN IF m1[5] >= 32 THEN [m |-> <<0, 0, 0, 0, 16>>, e |-> e1 + 1]
     ELSE [m |-> m1, e |-> e1]

RECURSIVE Normalize(_, _)
Normalize(v, e) == IF v >= 65536 THEN [m |-> <<0, 0, 0, v % Limb, v \div Limb>>, e |-> e]
                   ELSE Normalize(2 * v, e - 1)

\* the double of a small positive integer (exact)
DoubleOfInt(n) == Normalize(n, -36)

\* Math.floor of a positive double below 2^24
DoubleFloor(d) ==
  LET k == -d.e
  IN IF k >= 53 THEN 0
     ELSE IF k >= 48 THEN d.m[5] \div Pow2(k - 48)
     ELSE IF k >= 36 THEN (d.m[5] * Limb + d.m[4]) \div Pow2(k - 36)
     ELSE -1

(***************************************************************************)
(* MODIFIER_CONFIG: score multipliers (the doubles of 0.8, 0.7, 1.3, 2.0,  *)
(* 1.5, 0.6) and the same numbers in tenths.                               *)
(***************************************************************************)
ScoreMult(k) ==
  CASE k = "energized"   -> [m |-> <<2458, 2457, 2457, 2457, 25>>, e |-> -53]  \* 0x1.999999999999ap-1
    [] k = "lowGravity"  -> [m |-> <<1638, 1638, 1638, 1638, 22>>, e |-> -53]  \* 0x1.6666666666666p-1
    [] k = "highGravity" -> [m |-> <<3277, 3276, 3276, 3276, 20>>, e |-> -52]  \* 0x1.4cccccccccccdp+0
    [] k = "hardcore"    -> [m |-> <<0, 0, 0, 0, 16>>, e |-> -51]              \* 0x1.0p+1
    [] k = "oldSchool"   -> [m |-> <<0, 0, 0, 0, 24>>, e |-> -52]              \* 0x1.8p+0
    [] k = "tanky"       -> [m |-> <<819, 819, 819, 819, 19>>, e |-> -53]      \* 0x1.3333333333333p-1

ScoreMultTenths(k) ==
  CASE k = "energized" -> 8 [] k = "lowGravity" -> 7 [] k = "highGravity" -> 13
    [] k = "hardcore" -> 20 [] k = "oldSchool" -> 15 [] k = "tanky" -> 6

DoubleOne == [m |-> <<0, 0, 0, 0, 16>>, e |-> -52]

\* the order in which calculateScoreMultiplier multiplies
MultiplierOrder ==
  <<"energized", "lowGravity", "highGravity", "hardcore", "oldSchool", "tanky">>

RECURSIVE MultiplyFrom(_, _, _)
MultiplyFrom(mods, i, acc) ==
  IF i > Len(MultiplierOrder) THEN acc
  ELSE MultiplyFrom(mods, i + 1,
         IF mods[MultiplierOrder[i]] THEN DoubleMul(acc, ScoreMult(MultiplierOrder[i]))
         ELSE acc)

calculateScoreMultiplier(mods) == MultiplyFrom(mods, 1, DoubleOne)

\* the lookup with the medium band one death short
LevelPointsShortBand(restarts, deaths) ==
  IF restarts > 1 THEN 0
  ELSE IF restarts = 1 THEN 25
  ELSE IF deaths = 0 THEN 100
  ELSE IF deaths < 2 THEN 50
  ELSE 10

\* the lookup of handleLevelComplete
LevelPoints(restarts, deaths) ==
  IF restarts > 1 THEN 0
  ELSE IF restarts = 1 THEN 25
  ELSE IF deaths = 0 THEN 100
  ELSE IF deaths <= 2 THEN 50
  ELSE 10

\* points = Math.floor(points * multiplier)
ApplyMultiplier(points, mods) ==
  IF points = 0 THEN 0
  ELSE DoubleFloor(DoubleMul(DoubleOfInt(points), calculateScoreMultiplier(mods)))

\* the score computation of handleLevelComplete, with its inputs
levelScore(restarts, deaths, mods) ==
  [restarts |-> restarts, deaths |-> deaths, mods |-> mods,
   base |-> LevelPoints(restarts, deaths),
   points |-> ApplyMultiplier(LevelPoints(restarts, deaths), mods)]

(***************************************************************************)
(* Level Model: the ordered list of levels handed to the core.  Two small  *)
(* levels built the way utils/levels.ts builds its own, in tiles: a floor, *)
(* coins, a checkpoint, weak (damage 25) and instant-kill hazards, a       *)
(* finish (two finish entities on the same tile in the last level).        *)
(***************************************************************************)
Vec(x, y) == [x |-> x, y |-> y]

createEntity(id, type, x, y, w, h) ==
  [id |-> id, type |-> type,
   pos |-> Vec(x * TILE_SIZE, y * TILE_SIZE),
   size |-> Vec(w * TILE_SIZE, h * TILE_SIZE),
   hasDamage |-> FALSE, damage |-> 0,
   hasPatrol |-> FALSE, patrolRange |-> Vec(0, 0), moveSpeed |-> 0,
   moveOffset |-> 0]

createWeakSpike(id, x, y) ==
  [createEntity(id, "spike", x, y, 1, 1) EXCEPT !.hasDamage = TRUE, !.damage = 25]

levels ==
  << [spawnPos |-> Vec(40, 128), width |-> 400, height |-> 200,
      entities |-> << createEntity("p1", "platform", 0, 4, 10, 1),
                      createEntity("k1", "checkpoint", 5, 2, 1, 2),
                      createEntity("c1", "coin", 5, 2, 1, 1),
                      createEntity("s1", "spike", 8, 3, 1, 1),
                      createEntity("c2", "coin", 9, 3, 1, 1),
                      createEntity("f1", "finish", 9, 1, 1, 3) >>],
     [spawnPos |-> Vec(40, 128), width |-> 280, height |-> 200,
      entities |-> << createEntity("p2", "platform", 0, 4, 7, 1),
                      createWeakSpike("w1", 2, 3),
                      createWeakSpike("w2", 3, 3),
                      createEntity("s2", "lava", 4, 3, 1, 1),
                      createEntity("f2", "finish", 6, 1, 1, 3),
                      createEntity("f3", "finish", 6, 1, 1, 3) >>] >>

NumLevels == Len(levels)

CoinIds == {"c1", "c2"}

(***************************************************************************)
(* Player kinematics (steps 2-8 of the tick) are not computed: their       *)
(* outcome, the player's rectangle and velocity entering the interaction   *)
(* pass, is drawn from these sets.  A player at rest (after a mount or a   *)
(* respawn) moves less than 1.2 px sideways in one tick, so it stays on    *)
(* its spot for that tick.                                                 *)
(*   level 0: spawn; on the checkpoint's corner (checkpoint k1 and coin    *)
(*   c1); low on the checkpoint (k1 only); spike s1; spike s1, coin c2 and *)
(*   finish f1 at once; coin c2 and finish f1; below the level.            *)
(*   level 1: spawn; weak spikes w1 and w2 at once; lava s2; finishes f2   *)
(*   and f3 at once; below the level.                                      *)
(***************************************************************************)
Spots(idx) ==
  IF idx = 0
  THEN {Vec(40, 128), Vec(200, 80), Vec(208, 128), Vec(322, 128),
        Vec(345, 128), Vec(368, 128), Vec(150, 201)}
  ELSE {Vec(40, 128), Vec(90, 128), Vec(164, 128), Vec(248, 128),
        Vec(40, 201)}

Rest == Vec(0, 0)

VelChoices == {Rest, Vec(40000, 80000)}

\* AABB collision detection
checkCollision(rect1, rect2) ==
  /\ rect1.pos.x < rect2.pos.x + rect2.size.x
  /\ rect1.pos.x + rect1.size.x > rect2.pos.x
  /\ rect1.pos.y < rect2.pos.y + rect2.size.y
  /\ rect1.pos.y + rect1.size.y > rect2.pos.y

(***************************************************************************)
(* State.  App: the React state of the session.  GameCanvas: the refs of   *)
(* the mounted level instance.  Observers of the last step: events (what   *)
(* the frame emitted through its callbacks, in order), physOut (the level, *)
(* tick, rectangle and velocity it entered the interaction pass with, and  *)
(* the position it had after the respawn step),                            *)
(* award (the score computation of its level completion).  Observer of the *)
(* level instance: log (events counted since the instance was created).    *)
(***************************************************************************)
VARIABLES gameState, maxHp, currentHp, modifiers, showModifiers, resetKey,
          isPaused, collectedCoinIds, levelDeaths, levelRestarts,
          savedGameState, timers, runs,
          playerRef, checkpointRef, timeRef, levelCompleteTriggered,
          entitiesRef, events, physOut, award, log, core, loop

appVars == <<gameState, maxHp, currentHp, modifiers, showModifiers, resetKey,
             isPaused, collectedCoinIds, levelDeaths, levelRestarts,
             savedGameState, timers, runs>>

canvasVars == <<playerRef, checkpointRef, timeRef, levelCompleteTriggered,
                entitiesRef>>

vars == <<appVars, canvasVars, events, physOut, award, log, core, loop>>

Ev(type, id, hp) == [type |-> type, id |-> id, hp |-> hp]

Mounted == gameState.status \in {"playing", "level_transition"}

\* the pause flag of a canvas that only the user pauses
PausedByUser == isPaused

Paused == isPaused \/ gameState.status = "level_transition"

currentLevel == levels[gameState.currentLevelIndex + 1]

\* the default lives whatever the modifiers
startLivesDefault(mods) == INITIAL_LIVES

startLives(mods) == IF mods["hardcore"] THEN HARDCORE_LIVES ELSE INITIAL_LIVES

startHp(mods) == IF mods["tanky"] THEN TANKY_MAX_HP ELSE DEFAULT_MAX_HP

Min(a, b) == IF a < b THEN a ELSE b

(***************************************************************************)
(* GameCanvas mount: refs initialised, then the level reset effect.        *)
(***************************************************************************)
NewPlayer(level, hp) ==
  [pos |-> level.spawnPos, vel |-> Rest, size |-> Vec(PLAYER_SIZE, PLAYER_SIZE),
   isDead |-> FALSE, hp |-> hp, invulnerableUntil |-> 0]

\* every entity of the template active, whatever was collected
NewEntitiesAllActive(level, collected) ==
  [i \in 1..Len(level.entities) |-> [active |-> TRUE, collected |-> FALSE]]

NewEntities(level, collected) ==
  [i \in 1..Len(level.entities) |->
     LET e == level.entities[i]
         had == e.type = "coin" /\ e.id \in collected
     IN [active |-> ~had, collected |-> had]]

NoPlayer == [pos |-> Rest, vel |-> Rest, size |-> Vec(PLAYER_SIZE, PLAYER_SIZE),
             isDead |-> FALSE, hp |-> 0, invulnerableUntil |-> 0]

NoPhys == [from |-> Rest, pos |-> Rest, vel |-> Rest, level |-> -1, time |-> 0]

NoAward == [restarts |-> 0, deaths |-> 0, mods |-> NoModifiers,
            base |-> -1, points |-> -1]

\* the log of a level instance created with the collected set `collected`
NewLog(collected) ==
  [initialCollected |-> collected, coinEvents |-> [c \in CoinIds |-> 0],
   finishEvents |-> 0, hitAt |-> 0, respawned |-> FALSE,
   lossSameLife |-> FALSE, lossAfterRespawn |-> FALSE]

NoLog == NewLog({})

\* no simulation core under study
NoCore == [arena |-> 0]

\* no game canvas, no frame callback requested yet
NoLoop == [mounted |-> FALSE, canvas |-> 0, owner |-> 0,
           isPaused |-> [o \in 1..MaxLoops |-> FALSE],
           animationFrameId |-> [o \in 1..MaxLoops |-> 0], pending |-> {},
           nextId |-> 1, ticks |-> 0, ran |-> 0, stale |-> FALSE]

\* a step that runs no frame emits nothing
Quiet ==
  /\ events' = <<>>
  /\ physOut' = NoPhys
  /\ award' = NoAward
  /\ UNCHANGED <<core, loop>>

\* a mount that leaves the active checkpoint as it was
MountCanvasKeepsCheckpoint(idx, collected, hp) ==
  /\ playerRef' = NewPlayer(levels[idx + 1], hp)
  /\ checkpointRef' = IF checkpointRef = Rest THEN levels[idx + 1].spawnPos
                       ELSE checkpointRef
  /\ timeRef' = 0
  /\ levelCompleteTriggered' = FALSE
  /\ entitiesRef' = NewEntities(levels[idx + 1], collected)

MountCanvas(idx, collected, hp) ==
  /\ playerRef' = NewPlayer(levels[idx + 1], hp)
  /\ checkpointRef' = levels[idx + 1].spawnPos
  /\ timeRef' = 0
  /\ levelCompleteTriggered' = FALSE
  /\ entitiesRef' = NewEntities(levels[idx + 1], collected)

UnmountCanvas ==
  /\ playerRef' = NoPlayer
  /\ checkpointRef' = Rest
  /\ timeRef' = 0
  /\ levelCompleteTriggered' = FALSE
  /\ entitiesRef' = <<>>

\* the session in the menu, no level instance mounted
InMenu ==
  /\ gameState = [currentLevelIndex |-> 0, lives |-> INITIAL_LIVES, coins |-> 0,
                  score |-> 0, totalDeaths |-> 0, status |-> "menu"]
  /\ maxHp = DEFAULT_MAX_HP
  /\ currentHp = DEFAULT_MAX_HP
  /\ modifiers = NoModifiers
  /\ showModifiers = FALSE
  /\ resetKey = 0
  /\ isPaused = FALSE
  /\ collectedCoinIds = {}
  /\ levelDeaths = 0
  /\ levelRestarts = 0
  /\ savedGameState = [coins |-> 0, collectedCoinIds |-> {}]
  /\ timers = 0
  /\ runs = 0
  /\ playerRef = NoPlayer
  /\ checkpointRef = Rest
  /\ timeRef = 0
  /\ levelCompleteTriggered = FALSE
  /\ entitiesRef = <<>>
  /\ events = <<>>
  /\ physOut = NoPhys
  /\ award = NoAward
  /\ log = NoLog
  /\ loop = NoLoop

Init ==
  /\ InMenu
  /\ core = NoCore

(***************************************************************************)
(* Menu and pause operations of App.                                       *)
(***************************************************************************)
\* handleStartGame / handleSelectLevel(index): the same reset, then the mount
BeginRun(index) ==
  /\ gameState.status = "menu"
  /\ ~showModifiers
  /\ runs < MaxRuns
  /\ runs' = runs + 1
  /\ gameState' = [status |-> "playing", lives |-> startLives(modifiers),
                   coins |-> 0, score |-> 0, currentLevelIndex |-> index,
                   totalDeaths |-> 0]
  /\ collectedCoinIds' = {}
  /\ savedGameState' = [coins |-> 0, collectedCoinIds |-> {}]
  /\ levelDeaths' = 0
  /\ levelRestarts' = 0
  /\ resetKey' = 0
  /\ showModifiers' = FALSE
  /\ currentHp' = startHp(modifiers)
  /\ MountCanvas(index, {}, maxHp)
  /\ events' = <<Ev("Mount", "", 0)>>
  /\ physOut' = NoPhys
  /\ award' = NoAward
  /\ log' = NewLog({})
  /\ UNCHANGED <<maxHp, modifiers, isPaused, timers, core, loop>>

handleStartGame == BeginRun(0)

handleSelectLevel == \E index \in 0..(NumLevels - 1) : BeginRun(index)

\* a toggle that flips its key and nothing else
toggledAlone(prev, key) == [prev EXCEPT ![key] = ~prev[key]]

toggled(prev, key) ==
  LET next == [prev EXCEPT ![key] = ~prev[key]]
      a == IF key = "lowGravity" /\ next["lowGravity"]
           THEN [next EXCEPT !["highGravity"] = FALSE] ELSE next
      b == IF key = "highGravity" /\ a["highGravity"]
           THEN [a EXCEPT !["lowGravity"] = FALSE, !["oldSchool"] = FALSE] ELSE a
      c == IF key = "oldSchool" /\ b["oldSchool"]
           THEN [b EXCEPT !["highGravity"] = FALSE] ELSE b
  IN c

\* toggleModifier, and the effect on [modifiers.tanky] that follows it
toggleModifier ==
  \E key \in ModifierKeys :
    /\ gameState.status = "menu"
    /\ showModifiers
    /\ modifiers' = toggled(modifiers, key)
    /\ IF modifiers'["tanky"] # modifiers["tanky"]
       THEN /\ maxHp' = startHp(modifiers')
            /\ currentHp' = Min(currentHp, startHp(modifiers'))
       ELSE UNCHANGED <<maxHp, currentHp>>
    /\ Quiet
    /\ UNCHANGED <<gameState, showModifiers, resetKey, isPaused, collectedCoinIds,
                   levelDeaths, levelRestarts, savedGameState, timers, runs,
                   canvasVars, log>>

openModifiers ==
  /\ gameState.status = "menu"
  /\ showModifiers' = ~showModifiers
  /\ Quiet
  /\ UNCHANGED <<gameState, maxHp, currentHp, modifiers, resetKey, isPaused,
                 collectedCoinIds, levelDeaths, levelRestarts, savedGameState,
                 timers, runs, canvasVars, log>>

\* Escape key: registered on window, whatever the status
togglePause ==
  /\ isPaused' = ~isPaused
  /\ Quiet
  /\ UNCHANGED <<gameState, maxHp, currentHp, modifiers, showModifiers, resetKey,
                 collectedCoinIds, levelDeaths, levelRestarts, savedGameState,
                 timers, runs, canvasVars, log>>

\* pause overlay, "Resume"
resume ==
  /\ isPaused /\ gameState.status = "playing"
  /\ isPaused' = FALSE
  /\ Quiet
  /\ UNCHANGED <<gameState, maxHp, currentHp, modifiers, showModifiers, resetKey,
                 collectedCoinIds, levelDeaths, levelRestarts, savedGameState,
                 timers, runs, canvasVars, log>>

\* pause overlay "Menu" and victory screen "Main Menu": status := menu
toMenu ==
  /\ \/ isPaused /\ gameState.status = "playing"
     \/ gameState.status = "victory"
  /\ gameState' = [gameState EXCEPT !.status = "menu"]
  /\ UnmountCanvas
  /\ Quiet
  /\ log' = NoLog
  /\ UNCHANGED <<maxHp, currentHp, modifiers, showModifiers, resetKey, isPaused,
                 collectedCoinIds, levelDeaths, levelRestarts, savedGameState,
                 timers, runs>>

\* the setTimeout callback of handleLevelComplete
transitionTimeout ==
  /\ timers > 0
  /\ timers' = timers - 1
  /\ gameState' = IF gameState.status = "level_transition"
                  THEN [gameState EXCEPT !.status = "playing"] ELSE gameState
  /\ Quiet
  /\ UNCHANGED <<maxHp, currentHp, modifiers, showModifiers, resetKey, isPaused,
                 collectedCoinIds, levelDeaths, levelRestarts, savedGameState,
                 runs, canvasVars, log>>

(***************************************************************************)
(* GameCanvas.update: the interaction pass.  acc carries the refs the pass *)
(* mutates and the events it emits, in entity-list order.                  *)
(***************************************************************************)
\* the coin step reporting the coin without flagging the entity
CoinStepUnflagged(acc, i, e) ==
  [acc EXCEPT !.ev = @ \o <<Ev("CoinCollected", e.id, 0)>>]

\* coin, not yet collected
CoinStep(acc, i, e) ==
  [acc EXCEPT !.ents[i] = [active |-> FALSE, collected |-> TRUE],
              !.ev = @ \o <<Ev("CoinCollected", e.id, 0)>>]

\* the gate with the window one tick short (>= for >)
VulnerableFromWindowEnd(player, t) == t >= player.invulnerableUntil

\* the gate of the damage logic
Vulnerable(player, t) == t > player.invulnerableUntil

\* every hazard taken to carry its damage attribute
DamageAttributeOnly(e) == e.damage

\* entity.damage ?? 1000
DamageOf(e) == IF e.hasDamage THEN e.damage ELSE DEFAULT_DAMAGE

\* the damage logic applying knockback and the window to every hit
DamageStepAlwaysKnocksBack(acc, e, t) ==
  IF Vulnerable(acc.player, t)
  THEN LET hp == acc.player.hp - DamageOf(e)
       IN [acc EXCEPT !.player.hp = hp,
                      !.player.invulnerableUntil = t + INVULNERABLE_TICKS,
                      !.player.vel = Vec((-(acc.player.vel.x * 15)) \div 10,
                                         KNOCKBACK_VY),
                      !.player.isDead = @ \/ hp <= 0,
                      !.ev = @ \o (IF hp > 0
                                   THEN <<Ev("Health", e.id, hp),
                                          Ev("PlayerDamaged", e.id, hp)>>
                                   ELSE <<Ev("Health", e.id, hp)>>)]
  ELSE acc

\* spike / lava: the damage logic
DamageStep(acc, e, t) ==
  IF Vulnerable(acc.player, t)
  THEN LET hp == acc.player.hp - DamageOf(e)
       IN IF hp > 0
          THEN [acc EXCEPT !.player.hp = hp,
                           !.player.invulnerableUntil = t + INVULNERABLE_TICKS,
                           !.player.vel = Vec((-(acc.player.vel.x * 15)) \div 10,
                                              KNOCKBACK_VY),
                           !.ev = @ \o <<Ev("Health", e.id, hp),
                                         Ev("PlayerDamaged", e.id, hp)>>]
          ELSE [acc EXCEPT !.player.hp = hp,
                           !.player.isDead = TRUE,
                           !.ev = @ \o <<Ev("Health", e.id, hp)>>]
  ELSE acc

\* the finish step without the latch
FinishStepUnlatched(acc) ==
  [acc EXCEPT !.ev = @ \o <<Ev("LevelCompleted", "", 0)>>]

\* finish: latched
FinishStep(acc) ==
  IF ~acc.latch
  THEN [acc EXCEPT !.latch = TRUE, !.ev = @ \o <<Ev("LevelCompleted", "", 0)>>]
  ELSE acc

\* a checkpoint step that keeps the place the player touched it at
CheckpointStepAtPlayer(acc, i, e) ==
  [acc EXCEPT !.checkpoint = acc.player.pos,
              !.ents[i].active = TRUE,
              !.ev = IF acc.checkpoint # e.pos
                     THEN @ \o <<Ev("CheckpointReached", e.id, 0)>> ELSE @]

\* checkpoint
CheckpointStep(acc, i, e) ==
  [acc EXCEPT !.checkpoint = e.pos,
              !.ents[i].active = TRUE,
              !.ev = IF acc.checkpoint # e.pos
                     THEN @ \o <<Ev("CheckpointReached", e.id, 0)>> ELSE @]

Interact(acc, i, e, t) ==
  IF ~acc.ents[i].active /\ e.type # "checkpoint" THEN acc
  ELSE IF e.type = "text" THEN acc
  ELSE IF ~checkCollision(acc.player, e) THEN acc
  ELSE IF e.type = "coin" /\ ~acc.ents[i].collected THEN CoinStep(acc, i, e)
  ELSE IF e.type \in {"spike", "lava"} THEN DamageStep(acc, e, t)
  ELSE IF e.type = "finish" THEN FinishStep(acc)
  ELSE IF e.type = "checkpoint" THEN CheckpointStep(acc, i, e)
  ELSE acc

\* statement order: v is computed, then F runs on its value
Then(v, F(_)) == CHOOSE r \in {F(x) : x \in {v}} : TRUE

RECURSIVE InteractionPass(_, _, _, _)
InteractionPass(acc, level, i, t) ==
  IF i > Len(level.entities) THEN acc
  ELSE Then(Interact(acc, i, level.entities[i], t),
            LAMBDA a : InteractionPass(a, level, i + 1, t))

\* respawn-on-death, at the start of the tick after the one that set isDead
Respawn(player, checkpoint, hp) ==
  [player EXCEPT !.pos = checkpoint, !.vel = Rest, !.isDead = FALSE, !.hp = hp,
                 !.invulnerableUntil = 0]

\* the respawn without its health report
RespawnEventsNoHealth(hp) == <<Ev("PlayerDied", "", 0)>>

RespawnEvents(hp) == <<Ev("Health", "", hp), Ev("PlayerDied", "", 0)>>

\* the fall out of the level only far below it
FellOutFarBelow(pos, level) == pos.y > 2 * level.height

\* the vertical pass's fall out of the level
FellOut(pos, level) == pos.y > level.height

(***************************************************************************)
(* The React commit that follows a frame: the state updates the frame's    *)
(* callbacks queued, applied in order.  The callbacks read the values of   *)
(* the last render (cl); functional updaters read the value before them in *)
(* the queue; the updates an updater of gameState makes itself are queued  *)
(* behind the ones the frame made directly.                                *)
(***************************************************************************)
\* handleDeath reverting the coin counter on every death
handleDeathAlwaysReverts(acc, cl) ==
  LET prev == acc.gameState
      newLives == prev.lives - 1
      newTotalDeaths == prev.totalDeaths + 1
      base == [acc EXCEPT !.levelDeaths = @ + 1]
  IN IF newLives <= 0
     THEN [base EXCEPT !.reverted = TRUE,
                       !.levelRestarts = @ + 1,
                       !.resetKey = @ + 1,
                       !.gameState = [prev EXCEPT
                          !.lives = startLives(cl.modifiers),
                          !.coins = cl.savedGameState.coins,
                          !.totalDeaths = newTotalDeaths]]
     ELSE [base EXCEPT !.gameState = [prev EXCEPT !.lives = newLives,
                                                  !.coins = cl.savedGameState.coins,
                                                  !.totalDeaths = newTotalDeaths]]

\* handleDeath restarting the level without counting the restart
handleDeathUncountedRestart(acc, cl) ==
  LET prev == acc.gameState
      newLives == prev.lives - 1
      newTotalDeaths == prev.totalDeaths + 1
      base == [acc EXCEPT !.levelDeaths = @ + 1]
  IN IF newLives <= 0
     THEN [base EXCEPT !.reverted = TRUE,
                       !.resetKey = @ + 1,
                       !.gameState = [prev EXCEPT
                          !.lives = startLives(cl.modifiers),
                          !.coins = cl.savedGameState.coins,
                          !.totalDeaths = newTotalDeaths]]
     ELSE [base EXCEPT !.gameState = [prev EXCEPT !.lives = newLives,
                                                  !.totalDeaths = newTotalDeaths]]

\* handleDeath ending the game when the lives run out
handleDeathGameOver(acc, cl) ==
  LET prev == acc.gameState
      newLives == prev.lives - 1
      newTotalDeaths == prev.totalDeaths + 1
      base == [acc EXCEPT !.levelDeaths = @ + 1]
  IN IF newLives <= 0
     THEN [base EXCEPT !.gameState = [prev EXCEPT !.lives = 0,
                                                  !.status = "gameover",
                                                  !.totalDeaths = newTotalDeaths]]
     ELSE [base EXCEPT !.gameState = [prev EXCEPT !.lives = newLives,
                                                  !.totalDeaths = newTotalDeaths]]

\* handleDeath restarting the level only below zero lives
handleDeathBelowZero(acc, cl) ==
  LET prev == acc.gameState
      newLives == prev.lives - 1
      newTotalDeaths == prev.totalDeaths + 1
      base == [acc EXCEPT !.levelDeaths = @ + 1]
  IN IF newLives < 0
     THEN [base EXCEPT !.reverted = TRUE,
                       !.levelRestarts = @ + 1,
                       !.resetKey = @ + 1,
                       !.gameState = [prev EXCEPT
                          !.lives = startLives(cl.modifiers),
                          !.coins = cl.savedGameState.coins,
                          !.totalDeaths = newTotalDeaths]]
     ELSE [base EXCEPT !.gameState = [prev EXCEPT !.lives = newLives,
                                                  !.totalDeaths = newTotalDeaths]]

handleDeath(acc, cl) ==
  LET prev == acc.gameState
      newLives == prev.lives - 1
      newTotalDeaths == prev.totalDeaths + 1
      base == [acc EXCEPT !.levelDeaths = @ + 1]
  IN IF newLives <= 0
     THEN [base EXCEPT !.reverted = TRUE,
                       !.levelRestarts = @ + 1,
                       !.resetKey = @ + 1,
                       !.gameState = [prev EXCEPT
                          !.lives = startLives(cl.modifiers),
                          !.coins = cl.savedGameState.coins,
                          !.totalDeaths = newTotalDeaths]]
     ELSE [base EXCEPT !.gameState = [prev EXCEPT !.lives = newLives,
                                                  !.totalDeaths = newTotalDeaths]]

handleCoinCollect(acc, id) ==
  [acc EXCEPT !.collectedCoinIds = @ \cup {id},
              !.gameState.coins = @ + 1]

\* a level completion that advances the index on the last level too
handleLevelCompleteAlwaysAdvances(acc, cl) ==
  LET prev == acc.gameState
      scored == levelScore(cl.levelRestarts, cl.levelDeaths, cl.modifiers)
      points == scored.points
      nextLevelIdx == prev.currentLevelIndex + 1
      timed == [acc EXCEPT !.timers = @ + 1, !.award = scored]
  IN [timed EXCEPT !.savedGameState = [coins |-> prev.coins,
                                       collectedCoinIds |-> cl.collectedCoinIds],
                   !.zeroDeaths = TRUE,
                   !.levelRestarts = 0,
                   !.gameState = [prev EXCEPT !.score = @ + points,
                                              !.currentLevelIndex = nextLevelIdx,
                                              !.status = IF nextLevelIdx >= NumLevels
                                                         THEN "victory"
                                                         ELSE "level_transition"]]

\* a level completion that leaves the per-level counters as they are
handleLevelCompleteKeepsCounters(acc, cl) ==
  LET prev == acc.gameState
      scored == levelScore(cl.levelRestarts, cl.levelDeaths, cl.modifiers)
      points == scored.points
      nextLevelIdx == prev.currentLevelIndex + 1
      timed == [acc EXCEPT !.timers = @ + 1, !.award = scored]
  IN IF nextLevelIdx >= NumLevels
     THEN [timed EXCEPT !.gameState = [prev EXCEPT !.score = @ + points,
                                                   !.status = "victory"]]
     ELSE [timed EXCEPT !.savedGameState = [coins |-> prev.coins,
                                            collectedCoinIds |-> cl.collectedCoinIds],
                        !.gameState = [prev EXCEPT !.score = @ + points,
                                                   !.currentLevelIndex = nextLevelIdx,
                                                   !.status = "level_transition"]]

handleLevelComplete(acc, cl) ==
  LET prev == acc.gameState
      scored == levelScore(cl.levelRestarts, cl.levelDeaths, cl.modifiers)
      points == scored.points
      nextLevelIdx == prev.currentLevelIndex + 1
      timed == [acc EXCEPT !.timers = @ + 1, !.award = scored]
  IN IF nextLevelIdx >= NumLevels
     THEN [timed EXCEPT !.gameState = [prev EXCEPT !.score = @ + points,
                                                   !.status = "victory"]]
     ELSE [timed EXCEPT !.savedGameState = [coins |-> prev.coins,
                                            collectedCoinIds |-> cl.collectedCoinIds],
                        !.zeroDeaths = TRUE,
                        !.levelRestarts = 0,
                        !.gameState = [prev EXCEPT !.score = @ + points,
                                                   !.currentLevelIndex = nextLevelIdx,
                                                   !.status = "level_transition"]]

Dispatch(acc, ev, cl) ==
  CASE ev.type = "Health" -> [acc EXCEPT !.currentHp = ev.hp]
    [] ev.type = "PlayerDied" -> handleDeath(acc, cl)
    [] ev.type = "CoinCollected" -> handleCoinCollect(acc, ev.id)
    [] ev.type = "LevelCompleted" -> handleLevelComplete(acc, cl)
    [] OTHER -> acc

RECURSIVE DispatchAll(_, _, _, _)
DispatchAll(acc, evs, i, cl) ==
  IF i > Len(evs) THEN acc
  ELSE DispatchAll(Dispatch(acc, evs[i], cl), evs, i + 1, cl)

Closure ==
  [gameState |-> gameState, currentHp |-> currentHp, modifiers |-> modifiers,
   resetKey |-> resetKey, collectedCoinIds |-> collectedCoinIds,
   levelDeaths |-> levelDeaths, levelRestarts |-> levelRestarts,
   savedGameState |-> savedGameState, timers |-> timers,
   award |-> NoAward, reverted |-> FALSE, zeroDeaths |-> FALSE]

Commit(evs) ==
  LET q == DispatchAll(Closure, evs, 1, Closure)
  IN [q EXCEPT !.collectedCoinIds =
                  IF q.reverted THEN Closure.savedGameState.collectedCoinIds ELSE @,
               !.levelDeaths = IF q.zeroDeaths THEN 0 ELSE @]

(***************************************************************************)
(* One animation frame of the mounted GameCanvas, and the commit after it. *)
(***************************************************************************)
\* the refs and events a running frame leaves, for one kinematics outcome
Simulate(spot, v) ==
  LET t == timeRef + 1
      died == playerRef.isDead
      p1 == IF died THEN Respawn(playerRef, checkpointRef, maxHp) ELSE playerRef
      ev1 == IF died THEN RespawnEvents(maxHp) ELSE <<>>
      p2 == [p1 EXCEPT !.pos = spot, !.vel = v,
                       !.isDead = @ \/ FellOut(spot, currentLevel)]
  IN [from |-> p1,
      out |-> InteractionPass([player |-> p2, checkpoint |-> checkpointRef,
                               latch |-> levelCompleteTriggered,
                               ents |-> entitiesRef, ev |-> ev1],
                              currentLevel, 1, t)]

\* what one event of tick t adds to the log of the level instance
LogEvent(l, ev, t) ==
  CASE ev.type = "CoinCollected" -> [l EXCEPT !.coinEvents[ev.id] = @ + 1]
    [] ev.type = "LevelCompleted" -> [l EXCEPT !.finishEvents = @ + 1]
    [] ev.type = "PlayerDied" -> [l EXCEPT !.respawned = l.hitAt > 0]
    [] ev.type = "Health" /\ ev.id # "" ->
         LET inWindow == l.hitAt > 0 /\ t <= l.hitAt + 60
             l1 == [l EXCEPT !.lossSameLife = @ \/ (inWindow /\ ~l.respawned),
                             !.lossAfterRespawn = @ \/ (inWindow /\ l.respawned)]
         IN IF ev.hp > 0 THEN [l1 EXCEPT !.hitAt = t, !.respawned = FALSE] ELSE l1
    [] OTHER -> l

RECURSIVE LogAll(_, _, _, _)
LogAll(l, evs, i, t) ==
  IF i > Len(evs) THEN l ELSE LogAll(LogEvent(l, evs[i], t), evs, i + 1, t)

Frame(maxT, maxD) ==
  /\ Mounted
  /\ IF Paused
     THEN /\ Quiet
          /\ UNCHANGED <<appVars, canvasVars, log>>
     ELSE /\ timeRef < maxT
          /\ playerRef.isDead => gameState.totalDeaths < maxD
          /\ timers < MaxTimers
          /\ \E spot \in Spots(gameState.currentLevelIndex), v \in VelChoices :
             /\ playerRef.isDead => spot = checkpointRef
             /\ playerRef.vel = Rest => spot = playerRef.pos \/ playerRef.isDead
             /\ \E sim \in {Simulate(spot, v)} :
                \E q \in {Commit(sim.out.ev)} :
               /\ physOut' = [from |-> sim.from.pos, pos |-> spot, vel |-> v,
                              level |-> gameState.currentLevelIndex,
                              time |-> timeRef + 1]
               /\ award' = q.award
               /\ gameState' = q.gameState
               /\ collectedCoinIds' = q.collectedCoinIds
               /\ levelDeaths' = q.levelDeaths
               /\ levelRestarts' = q.levelRestarts
               /\ resetKey' = q.resetKey
               /\ savedGameState' = q.savedGameState
               /\ timers' = q.timers
               /\ UNCHANGED <<maxHp, modifiers, showModifiers, isPaused, runs,
                              core, loop>>
               /\ IF q.gameState.status = "victory"
                  THEN /\ UnmountCanvas
                       /\ currentHp' = q.currentHp
                       /\ events' = sim.out.ev
                       /\ log' = LogAll(log, sim.out.ev, 1, timeRef + 1)
                  ELSE IF q.gameState.currentLevelIndex # gameState.currentLevelIndex
                          \/ q.resetKey # resetKey
                  THEN /\ MountCanvas(q.gameState.currentLevelIndex,
                                      q.collectedCoinIds, maxHp)
                       /\ currentHp' = maxHp
                       /\ events' = sim.out.ev \o <<Ev("Mount", "", 0)>>
                       /\ log' = NewLog(q.collectedCoinIds)
                  ELSE /\ playerRef' = sim.out.player
                       /\ checkpointRef' = sim.out.checkpoint
                       /\ timeRef' = timeRef + 1
                       /\ levelCompleteTriggered' = sim.out.latch
                       /\ entitiesRef' = sim.out.ents
                       /\ currentHp' = q.currentHp
                       /\ events' = sim.out.ev
                       /\ log' = LogAll(log, sim.out.ev, 1, timeRef + 1)

update == Frame(MaxTime, MaxDeaths)

Next ==
  \/ handleStartGame
  \/ handleSelectLevel
  \/ toggleModifier
  \/ openModifiers
  \/ togglePause
  \/ resume
  \/ toMenu
  \/ transitionTimeout
  \/ update

Spec == Init /\ [][Next]_vars

(***************************************************************************)
(* A run in play: the states handleStartGame / handleSelectLevel leave,    *)
(* for the modifier sets that change lives and HP, and the frames and      *)
(* transition timers that follow.                                          *)
(***************************************************************************)
ReachableModifiers ==
  {m \in [ModifierKeys -> BOOLEAN] :
     ~(m["highGravity"] /\ (m["lowGravity"] \/ m["oldSchool"]))}

PlayModifiers ==
  {m \in ReachableModifiers :
     ~m["energized"] /\ ~m["lowGravity"] /\ ~m["highGravity"] /\ ~m["oldSchool"]}

\* the session and the instance a run is in when a level has just been mounted
\* with the coins `collected` handed to it as already collected
RunState(mods, index, collected) ==
  /\ gameState = [status |-> "playing", lives |-> startLives(mods),
                  coins |-> Cardinality(collected), score |-> 0,
                  currentLevelIndex |-> index, totalDeaths |-> 0]
  /\ maxHp = startHp(mods)
  /\ currentHp = startHp(mods)
  /\ modifiers = mods
  /\ showModifiers = FALSE
  /\ resetKey = 0
  /\ isPaused = FALSE
  /\ collectedCoinIds = collected
  /\ levelDeaths = 0
  /\ levelRestarts = 0
  /\ savedGameState = [coins |-> Cardinality(collected),
                       collectedCoinIds |-> collected]
  /\ timers = 0
  /\ runs = 1
  /\ playerRef = NewPlayer(levels[index + 1], startHp(mods))
  /\ checkpointRef = levels[index + 1].spawnPos
  /\ timeRef = 0
  /\ levelCompleteTriggered = FALSE
  /\ entitiesRef = NewEntities(levels[index + 1], collected)
  /\ events = <<Ev("Mount", "", 0)>>
  /\ physOut = NoPhys
  /\ award = NoAward
  /\ log = NewLog(collected)
  /\ core = NoCore
  /\ loop = NoLoop

RunStarted(mods, index) == RunState(mods, index, {})

InitPlay == \E mods \in PlayModifiers, index \in 0..(NumLevels - 1) :
              RunStarted(mods, index)

playUpdate == Frame(MaxPlayTime, MaxPlayDeaths)

NextPlay ==
  \/ playUpdate
  \/ transitionTimeout

SpecPlay == InitPlay /\ [][NextPlay]_vars

(***************************************************************************)
(* The last level played for longer than an invulnerability window.        *)
(***************************************************************************)
InitLong == \E mods \in {m \in PlayModifiers : ~m["hardcore"]} :
              RunStarted(mods, NumLevels - 1)

longUpdate == Frame(MaxLongTime, MaxLongDeaths)

NextLong ==
  \/ longUpdate
  \/ transitionTimeout

SpecLong == InitLong /\ [][NextLong]_vars

(***************************************************************************)
(* A level instance created with any caller-supplied set of collected      *)
(* coins (the collectedCoinIds prop of GameCanvas).                        *)
(***************************************************************************)
InitCanvas == \E mods \in PlayModifiers, index \in 0..(NumLevels - 1),
                 collected \in SUBSET CoinIds :
                RunState(mods, index, collected)

NextCanvas ==
  \/ playUpdate
  \/ transitionTimeout

SpecCanvas == InitCanvas /\ [][NextCanvas]_vars

(***************************************************************************)
(* The score computation alone, on every pair of counters and every        *)
(* modifier set the panel can produce.                                     *)
(***************************************************************************)
scoreLevel ==
  \E restarts \in 0..MaxRestartsIn, deaths \in 0..MaxDeathsIn,
     mods \in ReachableModifiers :
    /\ award = NoAward
    /\ award' = levelScore(restarts, deaths, mods)
    /\ UNCHANGED <<appVars, canvasVars, events, physOut, log, core, loop>>

NextScore == scoreLevel

SpecScore == Init /\ [][NextScore]_vars

(***************************************************************************)
(* The simulation core in detail: one level instance whose tick computes   *)
(* the kinematics (steps 1-9 of update) instead of drawing their outcome.  *)
(* Lengths and velocities are integers in 1/10000 px, which holds every    *)
(* constant of the source and every modifier-scaled one exactly; the two   *)
(* inexact operations of the source, the blend of the horizontal velocity  *)
(* (times 0.2) and Math.sin, are computed in fixed point: the blend rounds *)
(* down to 1/10000 px, the sine is Bhaskara's rational approximation on    *)
(* angles in 1/100 rad with result in 1/1000.                              *)
(***************************************************************************)
UNIT == 10000
GRAVITY == 3200
MOVE_SPEED == 22000
RUN_SPEED == 40000
CROUCH_SPEED == 10000
JUMP_FORCE == -92000
BOUNCE_FORCE == -150000
MAX_FALL_SPEED == 80000
CROUCH_HEIGHT == 16
MAX_JUMPS == 2
OLD_SCHOOL_MAX_JUMPS == 1
DEFAULT_MOVE_SPEED == 5

\* speedScale, in thousandths
speedScale(mods) ==
  (IF mods["energized"] THEN 14 ELSE 10) * (IF mods["tanky"] THEN 85 ELSE 100)

\* gravityScale, in hundredths
gravityScale(mods) ==
  (IF mods["lowGravity"] THEN 6 ELSE IF mods["highGravity"] THEN 14 ELSE 10)
    * (IF mods["tanky"] THEN 11 ELSE 10)

\* jumpScale, in thousandths
jumpScale(mods) ==
  (IF mods["oldSchool"] THEN 13 ELSE 10) * (IF mods["tanky"] THEN 95 ELSE 100)

EFFECTIVE_GRAVITY(mods) == (GRAVITY * gravityScale(mods)) \div 100

EFFECTIVE_JUMP_FORCE(mods) == -((-JUMP_FORCE * jumpScale(mods)) \div 1000)

EFFECTIVE_MOVE_SPEED(mods) == (MOVE_SPEED * speedScale(mods)) \div 1000

EFFECTIVE_RUN_SPEED(mods) == (RUN_SPEED * speedScale(mods)) \div 1000

EFFECTIVE_CROUCH_SPEED(mods) == (CROUCH_SPEED * speedScale(mods)) \div 1000

CURRENT_MAX_JUMPS(mods) == IF mods["oldSchool"] THEN OLD_SCHOOL_MAX_JUMPS ELSE MAX_JUMPS

\* Math.sin of an angle in 1/100 rad, in 1/1000
Sin(a) ==
  LET r == a % 628
      h == r % 314
      b == (16000 * h * (314 - h)) \div (492980 - 4 * h * (314 - h))
  IN IF r < 314 THEN b ELSE -b

\* an entity of the level model, placed in pixels
Entity(id, type, x, y, w, h) ==
  [createEntity(id, type, 0, 0, 0, 0) EXCEPT !.pos = Vec(x * UNIT, y * UNIT),
                                             !.size = Vec(w * UNIT, h * UNIT)]

\* the patrol attribute: range in pixels, speed and offset in 1/100 rad
Patrolling(e, rangeX, rangeY, speed, offset) ==
  [e EXCEPT !.hasPatrol = TRUE, !.patrolRange = Vec(rangeX * UNIT, rangeY * UNIT),
            !.moveSpeed = speed, !.moveOffset = offset]

(***************************************************************************)
(* The arena: a floor with a bouncy pad of the same top edge next to it    *)
(* (floor first in entity order), a small platform patrolling over the     *)
(* floor's left end, lava above the floor with a checkpoint under it, a    *)
(* weak spike in the pit right of the pad, a patrolling spike with         *)
(* moveSpeed 0 and one with moveSpeed 0.03 and an offset, and a step over  *)
(* the pad's right end whose top is 1 px above the pad's (after the pad in *)
(* entity order).                                                          *)
(***************************************************************************)
arenaEntities ==
  << Entity("floor", "platform", 0, 120, 160, 40),
     Entity("pad", "bouncy", 160, 120, 40, 40),
     Patrolling(Entity("slider", "platform", 34, 100, 20, 20), -30, 0, 50, 0),
     Entity("lava", "lava", 86, 50, 30, 30),
     Entity("flag", "checkpoint", 88, 88, 20, 32),
     [Entity("weak", "spike", 220, 160, 30, 20) EXCEPT !.hasDamage = TRUE,
                                                      !.damage = 25],
     Patrolling(Entity("still", "spike", 250, 20, 20, 20), 20, 0, 0, 0),
     Patrolling(Entity("mover", "spike", 250, 60, 20, 20), 0, 10, 3, 100),
     Entity("step", "platform", 200, 119, 12, 10) >>

\* the spawn points the arena is played from: on the floor's left end, on
\* the floor under the lava, above the floor, across floor and pad, on the
\* pad, in the pit above the weak spike, at the level's bottom edge, above
\* pad and step
SpawnPoints ==
  << Vec(0, 88), Vec(86, 88), Vec(126, 64), Vec(140, 88), Vec(164, 88),
     Vec(220, 150), Vec(240, 200), Vec(176, 85) >>

(***************************************************************************)
(* The crawl space: a floor, and 12 px above the head of a crouched player *)
(* on it a spike, a platform and a bouncy pad, each beginning where the    *)
(* standing player of a spawn point ends.                                  *)
(***************************************************************************)
crawlEntities ==
  << Entity("ground", "platform", 0, 120, 280, 40),
     Entity("thorn", "spike", 60, 92, 40, 8),
     Entity("beam", "platform", 132, 92, 40, 8),
     Entity("spring", "bouncy", 232, 92, 40, 8) >>

\* on the floor between spike and platform, and on the floor left of the pad
CrawlPoints == << Vec(100, 88), Vec(200, 88) >>

arenas ==
  [k \in 1..(Len(SpawnPoints) + Len(CrawlPoints)) |->
     IF k <= Len(SpawnPoints)
     THEN [spawnPos |-> Vec(SpawnPoints[k].x * UNIT, SpawnPoints[k].y * UNIT),
           width |-> 280 * UNIT, height |-> 200 * UNIT,
           entities |-> arenaEntities]
     ELSE LET at == CrawlPoints[k - Len(SpawnPoints)]
          IN [spawnPos |-> Vec(at.x * UNIT, at.y * UNIT),
              width |-> 280 * UNIT, height |-> 200 * UNIT,
              entities |-> crawlEntities]]

(***************************************************************************)
(* The refs of a level instance of the arena after its reset effect.       *)
(***************************************************************************)
NewBody(level, mods, hp) ==
  [pos |-> level.spawnPos, vel |-> Rest,
   size |-> Vec(PLAYER_SIZE * UNIT, PLAYER_SIZE * UNIT),
   isGrounded |-> FALSE, isCrouching |-> FALSE, isDead |-> FALSE,
   jumpsRemaining |-> CURRENT_MAX_JUMPS(mods), hp |-> hp, invulnerableUntil |-> 0]

\* entitiesRef: the copy of each entity's position, and its startPos
NewPlacement(level) ==
  [i \in 1..Len(level.entities) |->
     [pos |-> level.entities[i].pos, startPos |-> level.entities[i].pos]]

\* keysRef as read by one tick, and whether a jump key went down (not as a
\* key repeat) since the tick before
NoKeys == [left |-> FALSE, right |-> FALSE, run |-> FALSE, crouch |-> FALSE,
           jump |-> FALSE]

Inputs ==
  {NoKeys, [NoKeys EXCEPT !.right = TRUE], [NoKeys EXCEPT !.left = TRUE],
   [NoKeys EXCEPT !.right = TRUE, !.run = TRUE], [NoKeys EXCEPT !.crouch = TRUE],
   [NoKeys EXCEPT !.jump = TRUE]}

\* what the last tick went through: its input, the player and the active
\* checkpoint it began with,
\* whether it began with the respawn, and the player after the respawn
\* step, after the crouch step, after the jump step, after the horizontal
\* pass, after the vertical displacement and
\* after the vertical pass with the branches its obstacle loop took
NewObs(player) ==
  [keys |-> NoKeys, before |-> player, checkpoint |-> player.pos,
   respawned |-> FALSE,
   afterRespawn |-> player, afterCrouch |-> player, afterMove |-> player,
   contacts |-> <<>>,
   afterX |-> player, yMoved |-> player, afterY |-> player]

NewCore(k, mods) ==
  [arena |-> k, mods |-> mods, maxHp |-> startHp(mods), time |-> 0,
   player |-> NewBody(arenas[k], mods, startHp(mods)),
   checkpoint |-> arenas[k].spawnPos, latch |-> FALSE,
   jumpRequested |-> FALSE, presses |-> 0, jumps |-> 0,
   ents |-> NewEntities(arenas[k], {}), epos |-> NewPlacement(arenas[k]),
   ev |-> <<Ev("Health", "", startHp(mods))>>,
   obs |-> NewObs(NewBody(arenas[k], mods, startHp(mods)))]

(***************************************************************************)
(* The steps of update before the interaction pass.                        *)
(***************************************************************************)
\* a respawn that leaves the jump count as the death left it
RespawnBodyKeepsJumps(player, checkpoint, hp, maxJumps) ==
  Respawn(player, checkpoint, hp)

\* respawn-on-death of the player with its jump count
RespawnBody(player, checkpoint, hp, maxJumps) ==
  [Respawn(player, checkpoint, hp) EXCEPT !.jumpsRemaining = maxJumps]

\* a patrolling entity that steps from where it is instead of its startPos
MoveEntityFromWhereItIs(e, st, t) ==
  IF e.hasPatrol
  THEN LET speed == IF e.moveSpeed # 0 THEN e.moveSpeed ELSE DEFAULT_MOVE_SPEED
           s == Sin(t * speed + e.moveOffset)
       IN [st EXCEPT !.pos = Vec(st.pos.x + (s * e.patrolRange.x) \div 1000,
                                 st.pos.y + (s * e.patrolRange.y) \div 1000)]
  ELSE st

\* every entity drifting, patrol attribute or not
MoveEntityAlways(e, st, t) ==
  [st EXCEPT !.pos = Vec(st.startPos.x + (Sin(t * DEFAULT_MOVE_SPEED) * UNIT) \div 1000,
                         st.startPos.y)]

\* update moving entities: one entity
MoveEntity(e, st, t) ==
  IF e.hasPatrol
  THEN LET speed == IF e.moveSpeed # 0 THEN e.moveSpeed ELSE DEFAULT_MOVE_SPEED
           s == Sin(t * speed + e.moveOffset)
       IN [st EXCEPT !.pos = Vec(st.startPos.x + (s * e.patrolRange.x) \div 1000,
                                 st.startPos.y + (s * e.patrolRange.y) \div 1000)]
  ELSE st

UpdateMovingEntities(level, epos, t) ==
  [i \in 1..Len(epos) |-> MoveEntity(level.entities[i], epos[i], t)]

\* the entities where they are now
Placed(level, epos) ==
  [level EXCEPT !.entities =
     [i \in 1..Len(level.entities) |-> [level.entities[i] EXCEPT !.pos = epos[i].pos]]]

Obstacle(e) == e.type \in {"platform", "bouncy"}

\* a crouch step that resizes the player from its top edge
CrouchToggleKeepsTop(p, keys, ents) ==
  LET d == (PLAYER_SIZE - CROUCH_HEIGHT) * UNIT
      testRect == [pos |-> Vec(p.pos.x, p.pos.y - d),
                   size |-> Vec(PLAYER_SIZE * UNIT, PLAYER_SIZE * UNIT)]
      canStand == \A i \in 1..Len(ents) :
                    ~(Obstacle(ents[i]) /\ checkCollision(testRect, ents[i]))
  IN IF keys.crouch /\ ~p.isCrouching
     THEN [p EXCEPT !.isCrouching = TRUE, !.size.y = CROUCH_HEIGHT * UNIT]
     ELSE IF ~keys.crouch /\ p.isCrouching /\ canStand
     THEN [p EXCEPT !.isCrouching = FALSE, !.size.y = PLAYER_SIZE * UNIT]
     ELSE p

\* a crouch step whose probe stops at any entity
CrouchToggleAnyEntity(p, keys, ents) ==
  LET d == (PLAYER_SIZE - CROUCH_HEIGHT) * UNIT
      testRect == [pos |-> Vec(p.pos.x, p.pos.y - d),
                   size |-> Vec(PLAYER_SIZE * UNIT, PLAYER_SIZE * UNIT)]
      canStand == \A i \in 1..Len(ents) : ~checkCollision(testRect, ents[i])
  IN IF keys.crouch /\ ~p.isCrouching
     THEN [p EXCEPT !.isCrouching = TRUE, !.pos.y = @ + d,
                    !.size.y = CROUCH_HEIGHT * UNIT]
     ELSE IF ~keys.crouch /\ p.isCrouching /\ canStand
     THEN [p EXCEPT !.isCrouching = FALSE, !.pos.y = @ - d,
                    !.size.y = PLAYER_SIZE * UNIT]
     ELSE p

\* update crouch state
CrouchToggle(p, keys, ents) ==
  LET d == (PLAYER_SIZE - CROUCH_HEIGHT) * UNIT
      testRect == [pos |-> Vec(p.pos.x, p.pos.y - d),
                   size |-> Vec(PLAYER_SIZE * UNIT, PLAYER_SIZE * UNIT)]
      canStand == \A i \in 1..Len(ents) :
                    ~(Obstacle(ents[i]) /\ checkCollision(testRect, ents[i]))
  IN IF keys.crouch /\ ~p.isCrouching
     THEN [p EXCEPT !.isCrouching = TRUE, !.pos.y = @ + d,
                    !.size.y = CROUCH_HEIGHT * UNIT]
     ELSE IF ~keys.crouch /\ p.isCrouching /\ canStand
     THEN [p EXCEPT !.isCrouching = FALSE, !.pos.y = @ - d,
                    !.size.y = PLAYER_SIZE * UNIT]
     ELSE p

\* X movement: target speed and smooth acceleration
HorizontalIntent(p, keys, mods) ==
  LET speed == IF keys.run THEN EFFECTIVE_RUN_SPEED(mods)
               ELSE IF p.isCrouching THEN EFFECTIVE_CROUCH_SPEED(mods)
               ELSE EFFECTIVE_MOVE_SPEED(mods)
      targetSpeed == IF keys.right THEN speed ELSE IF keys.left THEN -speed ELSE 0
  IN [p EXCEPT !.vel.x = @ + ((targetSpeed - @) * 2) \div 10]

\* Y movement (gravity)
Gravity(p, mods) ==
  [p EXCEPT !.vel.y = Min(@ + EFFECTIVE_GRAVITY(mods), MAX_FALL_SPEED)]

\* keydown of a jump key (Space, ArrowUp, KeyW): the one-shot latch, and the
\* count of the presses that were no key repeat
handleKeyDown(c, repeat) ==
  IF repeat THEN c ELSE [c EXCEPT !.jumpRequested = TRUE, !.presses = @ + 1]

\* the latch cleared only by a tick that grants the jump
LatchClearedOnGrant(requested, p) ==
  IF requested /\ p.jumpsRemaining > 0 THEN FALSE ELSE requested

\* jump logic: the latch after it, for the player p it found
LatchAfterJump(requested, p) == IF requested THEN FALSE ELSE requested

\* a jump that adds its force to the falling speed
JumpAddsForce(p, requested, mods) ==
  IF requested /\ p.jumpsRemaining > 0
  THEN [p EXCEPT !.vel.y = @ + EFFECTIVE_JUMP_FORCE(mods), !.isGrounded = FALSE,
                 !.jumpsRemaining = @ - 1]
  ELSE p

\* jump logic
Jump(p, requested, mods) ==
  IF requested /\ p.jumpsRemaining > 0
  THEN [p EXCEPT !.vel.y = EFFECTIVE_JUMP_FORCE(mods), !.isGrounded = FALSE,
                 !.jumpsRemaining = @ - 1]
  ELSE p

\* X axis: displacement and level bounds
XClamp(p, level) ==
  LET p1 == [p EXCEPT !.pos.x = @ + p.vel.x]
      p2 == IF p1.pos.x < 0 THEN [p1 EXCEPT !.pos.x = 0, !.vel.x = 0] ELSE p1
  IN IF p2.pos.x > level.width - p2.size.x
     THEN [p2 EXCEPT !.pos.x = level.width - p2.size.x, !.vel.x = 0]
     ELSE p2

\* X axis: push-out of one platform or bouncy entity
XPush(p, e) ==
  IF Obstacle(e) /\ checkCollision(p, e)
  THEN [p EXCEPT !.pos.x = IF p.vel.x > 0 THEN e.pos.x - p.size.x
                           ELSE IF p.vel.x < 0 THEN e.pos.x + e.size.x
                           ELSE @,
                 !.vel.x = 0]
  ELSE p

RECURSIVE XResolve(_, _, _)
XResolve(p, ents, i) ==
  IF i > Len(ents) THEN p
  ELSE Then(XPush(p, ents[i]), LAMBDA q : XResolve(q, ents, i + 1))

XAxisPass(p, level, ents) ==
  Then(XClamp(p, level), LAMBDA q : XResolve(q, ents, 1))

\* Y axis: displacement and the fall out of the level
YMove(p, level) ==
  LET p1 == [p EXCEPT !.pos.y = @ + p.vel.y]
  IN [p1 EXCEPT !.isDead = @ \/ FellOut(p1.pos, level)]

\* a bounce that counts as standing on the pad
BounceAndGround(acc, e, maxJumps) ==
  [acc EXCEPT !.player.pos.y = e.pos.y - acc.player.size.y,
              !.player.vel.y = BOUNCE_FORCE,
              !.player.jumpsRemaining = maxJumps,
              !.grounded = TRUE,
              !.contacts = Append(@, [id |-> e.id, branch |-> "bounce"])]

\* bounce logic
Bounce(acc, e, maxJumps) ==
  [acc EXCEPT !.player.pos.y = e.pos.y - acc.player.size.y,
              !.player.vel.y = BOUNCE_FORCE,
              !.player.isGrounded = FALSE,
              !.player.jumpsRemaining = maxJumps,
              !.contacts = Append(@, [id |-> e.id, branch |-> "bounce"])]

\* a landing that snaps to the platform and keeps the falling speed
LandKeepsFalling(acc, e) ==
  [acc EXCEPT !.player.pos.y = e.pos.y - acc.player.size.y,
              !.grounded = TRUE,
              !.contacts = Append(@, [id |-> e.id, branch |-> "land"])]

\* land logic
Land(acc, e) ==
  [acc EXCEPT !.player.pos.y = e.pos.y - acc.player.size.y,
              !.player.vel.y = 0,
              !.grounded = TRUE,
              !.contacts = Append(@, [id |-> e.id, branch |-> "land"])]

\* Y axis: one platform or bouncy entity
YContact(acc, e, maxJumps) ==
  IF Obstacle(e) /\ checkCollision(acc.player, e)
  THEN IF acc.player.vel.y > 0
       THEN IF e.type = "bouncy" THEN Bounce(acc, e, maxJumps) ELSE Land(acc, e)
       ELSE IF acc.player.vel.y < 0
       THEN [acc EXCEPT !.player.pos.y = e.pos.y + e.size.y, !.player.vel.y = 0,
                        !.contacts = Append(@, [id |-> e.id, branch |-> "ceiling"])]
       ELSE acc
  ELSE acc

RECURSIVE YResolve(_, _, _, _)
YResolve(acc, ents, i, maxJumps) ==
  IF i > Len(ents) THEN acc
  ELSE Then(YContact(acc, ents[i], maxJumps),
            LAMBDA a : YResolve(a, ents, i + 1, maxJumps))

\* the obstacle loop of the Y axis from the displaced player: the player,
\* groundedThisFrame and the branches taken, in entity order
YLoop(p, level, ents, maxJumps) ==
  Then([player |-> YMove(p, level), grounded |-> FALSE, contacts |-> <<>>],
       LAMBDA a : YResolve(a, ents, 1, maxJumps))

\* isGrounded and the jump count from what the obstacle loop left
YEnd(r, maxJumps) ==
  [r.player EXCEPT !.isGrounded = r.grounded,
                   !.jumpsRemaining = IF r.grounded THEN maxJumps ELSE @]

YAxisPass(p, level, ents, maxJumps) ==
  Then(YLoop(p, level, ents, maxJumps), LAMBDA r : YEnd(r, maxJumps))

\* the movement steps of update, from the crouch toggle to the jump
Movement(p, keys, requested, mods, ents) ==
  Then(CrouchToggle(p, keys, ents), LAMBDA p1 :
  Then(HorizontalIntent(p1, keys, mods), LAMBDA p2 :
  Then(Gravity(p2, mods), LAMBDA p3 : Jump(p3, requested, mods))))

\* one executed tick of update on the core c with the input keys, from the
\* player p0 and the events ev0 the respawn step left
TickFrom(c, keys, p0, ev0) ==
  LET level == arenas[c.arena]
      t == c.time + 1
      maxJumps == CURRENT_MAX_JUMPS(c.mods)
  IN Then(UpdateMovingEntities(level, c.epos, t), LAMBDA epos :
     Then(Placed(level, epos), LAMBDA placed :
     Then(Movement(p0, keys, c.jumpRequested, c.mods, placed.entities),
          LAMBDA p2 :
     Then(XAxisPass(p2, level, placed.entities), LAMBDA p3 :
     Then(YLoop(p3, level, placed.entities, maxJumps), LAMBDA r :
     Then(YEnd(r, maxJumps), LAMBDA p4 :
     Then(InteractionPass([player |-> p4, checkpoint |-> c.checkpoint,
                           latch |-> c.latch, ents |-> c.ents, ev |-> ev0],
                          placed, 1, t), LAMBDA out :
       [c EXCEPT !.time = t, !.player = out.player,
                 !.checkpoint = out.checkpoint, !.latch = out.latch,
                 !.ents = out.ents, !.epos = epos, !.ev = out.ev,
                 !.jumpRequested = LatchAfterJump(c.jumpRequested, p0),
                 !.jumps = IF p2.jumpsRemaining < p0.jumpsRemaining
                           THEN @ + 1 ELSE @,
                 !.obs = [keys |-> keys, before |-> c.player,
                          checkpoint |-> c.checkpoint,
                          respawned |-> c.player.isDead, afterRespawn |-> p0,
                          afterCrouch |-> CrouchToggle(p0, keys, placed.entities),
                          afterMove |-> p2,
                          afterX |-> p3, yMoved |-> YMove(p3, level),
                          contacts |-> r.contacts, afterY |-> p4]])))))))

\* one executed tick of update on the core c with the input keys
Tick(c, keys) ==
  IF c.player.isDead
  THEN Then(RespawnBody(c.player, c.checkpoint, c.maxHp, CURRENT_MAX_JUMPS(c.mods)),
            LAMBDA p0 : TickFrom(c, keys, p0, RespawnEvents(c.maxHp)))
  ELSE TickFrom(c, keys, c.player, <<>>)

(***************************************************************************)
(* The core played with input: every spawn point of the arena, the         *)
(* modifier sets that change jump count and max HP, one of Inputs read by  *)
(* each tick.                                                              *)
(***************************************************************************)
CoreModifiers ==
  {m \in ReachableModifiers :
     ~m["energized"] /\ ~m["lowGravity"] /\ ~m["highGravity"] /\ ~m["hardcore"]}

\* one executed tick of the core, its input among `inputs`
coreTick(inputs, maxT) ==
  /\ core # NoCore
  /\ core.time < maxT
  /\ \E keys \in inputs :
       \E c \in {IF keys.jump THEN handleKeyDown(core, FALSE) ELSE core} :
         core' = Tick(c, keys)
  /\ UNCHANGED <<appVars, canvasVars, events, physOut, award, log, loop>>

InitCore ==
  /\ InMenu
  /\ \E k \in 1..Len(SpawnPoints), mods \in CoreModifiers :
       core = NewCore(k, mods)

tick == coreTick(Inputs, MaxCoreTime)

NextCore == tick

SpecCore == InitCore /\ [][NextCore]_vars

(***************************************************************************)
(* The core left alone: no key is ever pressed.  Every modifier set that   *)
(* the panel can produce and that changes the physics.                     *)
(***************************************************************************)
IdleModifiers == {m \in ReachableModifiers : ~m["hardcore"]}

InitIdle ==
  /\ InMenu
  /\ \E k \in 1..Len(SpawnPoints), mods \in IdleModifiers :
       core = NewCore(k, mods)

idleTick == coreTick({NoKeys}, MaxIdleTime)

NextIdle == idleTick

SpecIdle == InitIdle /\ [][NextIdle]_vars

\* the animation frame is requested again by every frame
SpecIdleFair == SpecIdle /\ WF_vars(idleTick)

(***************************************************************************)
(* The core with the jump key alone: key-down events, repeats or not,      *)
(* arrive in any number between two ticks.                                 *)
(***************************************************************************)
jumpKeyDown ==
  /\ core # NoCore
  /\ core.presses < MaxPresses
  /\ \E repeat \in BOOLEAN : core' = handleKeyDown(core, repeat)
  /\ UNCHANGED <<appVars, canvasVars, events, physOut, award, log, loop>>

keyTick == coreTick({NoKeys}, MaxKeyTime)

NextKeys ==
  \/ jumpKeyDown
  \/ keyTick

SpecKeys == InitCore /\ [][NextKeys]_vars

(***************************************************************************)
(* The crawl space played with the crouch and direction keys.              *)
(***************************************************************************)
CrouchInputs ==
  {NoKeys, [NoKeys EXCEPT !.crouch = TRUE],
   [NoKeys EXCEPT !.crouch = TRUE, !.right = TRUE],
   [NoKeys EXCEPT !.crouch = TRUE, !.left = TRUE],
   [NoKeys EXCEPT !.left = TRUE], [NoKeys EXCEPT !.right = TRUE]}

InitCrouch ==
  /\ InMenu
  /\ \E k \in (Len(SpawnPoints) + 1)..Len(arenas), mods \in CoreModifiers :
       core = NewCore(k, mods)

crouchTick == coreTick(CrouchInputs, MaxCrouchTime)

NextCrouch == crouchTick

SpecCrouch == InitCrouch /\ [][NextCrouch]_vars

(***************************************************************************)
(* The scheduling of the game loop alone.  Each run of the game loop       *)
(* effect is an instance (owner) with its own update closure and its own   *)
(* animationFrameId; the browser holds the requested callbacks (pending),  *)
(* each under the id requestAnimationFrame returned.  A callback, a        *)
(* cleanup and an effect run to completion, one at a time.                 *)
(***************************************************************************)
requestAnimationFrame(l, owner) ==
  [l EXCEPT !.pending = @ \cup {[id |-> l.nextId, owner |-> owner]},
            !.nextId = @ + 1]

cancelAnimationFrame(l, id) == [l EXCEPT !.pending = {c \in @ : c.id # id}]

\* a request whose id is not kept
ScheduleUnrecorded(l, owner) == requestAnimationFrame(l, owner)

\* animationFrameId = requestAnimationFrame(update)
Schedule(l, owner) ==
  [requestAnimationFrame(l, owner) EXCEPT !.animationFrameId[owner] = l.nextId]

\* the cleanup of the current instance of the effect
Cleanup(l) == cancelAnimationFrame(l, l.animationFrameId[l.owner])

\* a run of the effect, its closure holding the pause flag `paused`
Effect(l, paused) ==
  Schedule([l EXCEPT !.owner = @ + 1, !.isPaused[l.owner + 1] = paused,
                     !.mounted = TRUE],
           l.owner + 1)

\* update of the instance c.owner, called by the browser: both branches end
\* by requesting the next frame
RunCallback(l, c) ==
  Schedule([l EXCEPT !.pending = @ \ {c},
                     !.ran = c.owner,
                     !.ticks = IF l.isPaused[c.owner] THEN @ ELSE @ + 1,
                     !.stale = @ \/ ~l.mounted \/ c.owner # l.owner],
           c.owner)

LoopIdle == UNCHANGED <<appVars, canvasVars, events, physOut, award, log, core>>

\* a GameCanvas appears (the status leaves menu, victory or gameover)
loopMount ==
  /\ ~loop.mounted
  /\ loop.owner < MaxLoops
  /\ \E paused \in BOOLEAN :
       loop' = Effect([loop EXCEPT !.canvas = @ + 1], paused)
  /\ LoopIdle

\* the key of GameCanvas changes (level change, restart): the old instance
\* is unmounted and a new one mounted in the same commit
loopRemount ==
  /\ loop.mounted
  /\ loop.owner < MaxLoops
  /\ \E paused \in BOOLEAN :
       loop' = Effect([Cleanup(loop) EXCEPT !.canvas = @ + 1], paused)
  /\ LoopIdle

\* a dependency of the effect changes (a callback, the pause flag)
loopResubscribe ==
  /\ loop.mounted
  /\ loop.owner < MaxLoops
  /\ \E paused \in BOOLEAN : loop' = Effect(Cleanup(loop), paused)
  /\ LoopIdle

\* the GameCanvas disappears (menu, victory)
loopUnmount ==
  /\ loop.mounted
  /\ loop' = [Cleanup(loop) EXCEPT !.mounted = FALSE]
  /\ LoopIdle

\* the browser runs a requested callback
loopFrame ==
  /\ loop.nextId <= MaxFrameIds
  /\ \E c \in loop.pending : loop' = RunCallback(loop, c)
  /\ LoopIdle

NextLoop ==
  \/ loopMount
  \/ loopRemount
  \/ loopResubscribe
  \/ loopUnmount
  \/ loopFrame

SpecLoop == Init /\ [][NextLoop]_vars

(***************************************************************************)
(* Properties.                                                             *)
(***************************************************************************)
HasEvent(evs, type) == \E i \in 1..Len(evs) : evs[i].type = type

CountEvents(evs, type) == Cardinality({i \in 1..Len(evs) : evs[i].type = type})

Scored == award # NoAward

\* C1: the base level score is looked up from (restarts, deaths): restarts >= 2
\* gives 0; restarts = 1 gives 25 for every death count; restarts = 0 gives 100
\* with no death, 50 with 1 or 2 deaths, 10 with more than 2 deaths.
C1_BaseScoreLookup ==
  Scored =>
    /\ award.restarts >= 2 => award.base = 0
    /\ award.restarts = 1 => award.base = 25
    /\ award.restarts = 0 /\ award.deaths = 0 => award.base = 100
    /\ award.restarts = 0 /\ award.deaths >= 1 /\ award.deaths <= 2 => award.base = 50
    /\ award.restarts = 0 /\ award.deaths > 2 => award.base = 10

C1_ManyDeathsNoRestart ==
  Scored /\ award.restarts = 0 /\ award.deaths = 5 /\ award.base = 10

\* the product of the active modifiers' multipliers, in tenths^n, and 10^n
RECURSIVE TenthsProduct(_, _)
TenthsProduct(mods, i) ==
  IF i > Len(MultiplierOrder) THEN [num |-> 1, den |-> 1]
  ELSE LET rest == TenthsProduct(mods, i + 1)
       IN IF mods[MultiplierOrder[i]]
          THEN [num |-> ScoreMultTenths(MultiplierOrder[i]) * rest.num,
                den |-> 10 * rest.den]
          ELSE rest

ExactFloor(base, mods) ==
  (base * TenthsProduct(mods, 1).num) \div TenthsProduct(mods, 1).den

\* C2: the amount added to the score on level completion is
\* floor(base score x product of the multipliers of the active modifiers), for
\* every modifier combination; 200 with only hardcore and no death, no restart;
\* the base score with no modifier.
C2_ScoreIsFlooredProduct ==
  Scored =>
    /\ award.points = ExactFloor(award.base, award.mods)
    /\ (award.mods = [NoModifiers EXCEPT !["hardcore"] = TRUE]
         /\ award.deaths = 0 /\ award.restarts = 0) => award.points = 200
    /\ award.mods = NoModifiers => award.points = award.base

\* the last frame restarted the level: its death exhausted the lives
Restarted ==
  /\ HasEvent(events, "PlayerDied")
  /\ HasEvent(events, "Mount")
  /\ ~HasEvent(events, "LevelCompleted")

\* C3: when a death exhausts the lives, the level instance that restarts begins
\* with the coin counter and the collected set equal to the snapshot taken at
\* the start of the level: the coins of the failed attempt are discarded and
\* collectible again, the coins collected before the level are kept.
C3_RestartRestoresSnapshot ==
  Restarted =>
    /\ gameState.coins = savedGameState.coins
    /\ collectedCoinIds = savedGameState.collectedCoinIds
    /\ \A i \in 1..Len(entitiesRef) :
         currentLevel.entities[i].type = "coin" =>
           (entitiesRef[i].collected
              <=> currentLevel.entities[i].id \in savedGameState.collectedCoinIds)

\* the ids of the coins the frame's events report collected
CollectedBy(evs) ==
  {evs[i].id : i \in {j \in 1..Len(evs) : evs[j].type = "CoinCollected"}}

\* C4: a death that leaves lives > 0 decrements lives by one, increments the
\* death counters and leaves unchanged the coin counter, the collected set, the
\* snapshot, the restart counter, the score, the level index and the level
\* instance (no remount: entity flags and the active checkpoint are kept); a
\* coin picked up in the same frame is its own change.
C4_PlainDeathKeepsProgress ==
  [][(HasEvent(events', "PlayerDied") /\ gameState.lives > 1) =>
       /\ gameState'.lives = gameState.lives - 1
       /\ gameState'.totalDeaths = gameState.totalDeaths + 1
       /\ levelDeaths' = levelDeaths + 1
       /\ gameState'.coins = gameState.coins + CountEvents(events', "CoinCollected")
       /\ collectedCoinIds' = collectedCoinIds \cup CollectedBy(events')
       /\ savedGameState' = savedGameState
       /\ levelRestarts' = levelRestarts
       /\ resetKey' = resetKey
       /\ gameState'.score = gameState.score
       /\ gameState'.currentLevelIndex = gameState.currentLevelIndex
       /\ gameState'.status = gameState.status
       /\ ~HasEvent(events', "Mount")
       /\ timeRef' = timeRef + 1
       /\ checkpointRef' = checkpointRef
       /\ levelCompleteTriggered' = levelCompleteTriggered
       /\ \A i \in 1..Len(entitiesRef) :
            \/ entitiesRef'[i] = entitiesRef[i]
            \/ currentLevel.entities[i].id \in CollectedBy(events')
     ]_vars

C4_DiedWithProgress ==
  /\ events = RespawnEvents(maxHp)
  /\ gameState.lives = INITIAL_LIVES - 1
  /\ gameState.coins = 1
  /\ collectedCoinIds = {"c1"}
  /\ checkpointRef # currentLevel.spawnPos
  /\ playerRef.pos = checkpointRef

\* the player rectangle the last frame entered the interaction pass with
PlayerRect(phys) == [pos |-> phys.pos, size |-> Vec(PLAYER_SIZE, PLAYER_SIZE)]

CoinEventsFor(evs, id) ==
  Cardinality({i \in 1..Len(evs) : evs[i].type = "CoinCollected" /\ evs[i].id = id})

\* the frame overlapped coin entity i of the level, which was collected before it
OverlapsCollectedCoin(phys, level, ents, i) ==
  /\ level.entities[i].type = "coin"
  /\ ents[i].collected
  /\ checkCollision(PlayerRect(phys), level.entities[i])

\* C5: coin collection is idempotent: within a level instance each coin entity
\* produces at most one CoinCollected event however many ticks the player
\* overlaps it, a coin already in the collected set when the instance is
\* created produces none, and overlapping an already-collected coin changes
\* neither the coin counter nor the score.
C5_CoinCollectionIdempotent ==
  /\ [](\A c \in CoinIds :
          /\ log.coinEvents[c] <= 1
          /\ CoinEventsFor(events, c) <= 1
          /\ c \in log.initialCollected => log.coinEvents[c] = 0)
  /\ [][\A i \in 1..Len(entitiesRef) :
          (/\ physOut'.level = gameState.currentLevelIndex
           /\ OverlapsCollectedCoin(physOut', currentLevel, entitiesRef, i))
          => /\ CoinEventsFor(events', currentLevel.entities[i].id) = 0
             /\ (events' = <<>> =>
                   /\ gameState'.coins = gameState.coins
                   /\ gameState'.score = gameState.score
                   /\ collectedCoinIds' = collectedCoinIds)
       ]_vars

C5_SecondOverlap ==
  /\ physOut.level = gameState.currentLevelIndex
  /\ Mounted
  /\ \E i \in 1..Len(entitiesRef) :
       /\ OverlapsCollectedCoin(physOut, currentLevel, entitiesRef, i)
       /\ log.coinEvents[currentLevel.entities[i].id] = 1
  /\ events = <<>>
  /\ gameState.coins = 1

\* the finish entities of its level the last frame's player rectangle overlapped
FinishesOverlapped ==
  IF physOut.level < 0 THEN {}
  ELSE {i \in 1..Len(levels[physOut.level + 1].entities) :
          /\ levels[physOut.level + 1].entities[i].type = "finish"
          /\ checkCollision(PlayerRect(physOut), levels[physOut.level + 1].entities[i])}

\* C6: for each level instance, overlap with finish entities produces exactly
\* one LevelCompleted event, however many ticks the player overlaps a finish
\* entity and however many finish entities overlap in one tick.
C6_OneLevelCompleted ==
  /\ log.finishEvents <= 1
  /\ CountEvents(events, "LevelCompleted") <= 1
  /\ FinishesOverlapped # {} => CountEvents(events, "LevelCompleted") = 1
  /\ HasEvent(events, "LevelCompleted") => FinishesOverlapped # {}

C6_TwoFinishesOneEvent ==
  /\ Cardinality(FinishesOverlapped) = 2
  /\ CountEvents(events, "LevelCompleted") = 1
  /\ log.finishEvents = 1

\* the spike and lava entities of its level the last frame's player rectangle
\* overlapped
HazardsOverlapped ==
  IF physOut.level < 0 THEN {}
  ELSE {i \in 1..Len(levels[physOut.level + 1].entities) :
          /\ levels[physOut.level + 1].entities[i].type \in {"spike", "lava"}
          /\ checkCollision(PlayerRect(physOut), levels[physOut.level + 1].entities[i])}

\* C7 as stated: after a non-lethal hazard hit at tick t there is no further HP
\* loss and no further PlayerDamaged event at any tick up to and including
\* t + 60, a second hazard overlapped in tick t included.
C7_WindowGatesRepeatDamage ==
  /\ ~log.lossSameLife
  /\ ~log.lossAfterRespawn
  /\ CountEvents(events, "PlayerDamaged") <= 1

\* C7 amended: after a non-lethal hazard hit at tick t there is no further HP
\* loss and no further PlayerDamaged event at any tick up to and including
\* t + 60, a second hazard overlapped in tick t included, as long as the player
\* has not died and respawned since that hit.
C7_WindowGatesRepeatDamageInLife ==
  /\ ~log.lossSameLife
  /\ CountEvents(events, "PlayerDamaged") <= 1

C7_GatedOnLastWindowTick ==
  /\ log.hitAt > 0
  /\ ~log.respawned
  /\ physOut.time = log.hitAt + 60
  /\ HazardsOverlapped # {}
  /\ events = <<>>
  /\ playerRef.hp = maxHp - 25
  /\ ~playerRef.isDead

\* the level instance that ran the last frame is still the mounted one
InstanceSurvived ==
  /\ Mounted
  /\ physOut.level >= 0
  /\ physOut.time = timeRef
  /\ ~HasEvent(events, "Mount")

\* the health reports of the last frame that came from a hazard hit
HazardReports ==
  {i \in 1..Len(events) : events[i].type = "Health" /\ events[i].id # ""}

\* C8 as stated: every value passed through onHealthUpdate, and held as
\* currentHp by the session, is >= 0.
C8_ReportedHpNeverNegative ==
  /\ currentHp >= 0
  /\ \A i \in 1..Len(events) : events[i].type = "Health" => events[i].hp >= 0

\* C8 amended: every value passed through onHealthUpdate is > 0, except the
\* value HP - damage <= 0 that a lethal hazard hit reports in the tick that
\* marks the player dead; currentHp is > 0 whenever the mounted level instance
\* has a live player, the respawn and the mount reporting max HP.
C8_OnlyLethalHitReportsNonPositiveHp ==
  /\ \A i \in 1..Len(events) :
       events[i].type = "Health" /\ events[i].hp <= 0 =>
         /\ i \in HazardReports
         /\ InstanceSurvived => playerRef.isDead
  /\ Mounted /\ ~playerRef.isDead => currentHp > 0

C8_NegativeHpReported ==
  /\ InstanceSurvived
  /\ playerRef.isDead
  /\ currentHp = DEFAULT_MAX_HP - DEFAULT_DAMAGE
  /\ \E i \in HazardReports : events[i].hp = currentHp

\* C9: when a hazard hit brings HP to 0 or below the player is dead after that
\* tick, its velocity is the one the physics left and no invulnerability window
\* starts at that tick; a tick changes the velocity by knockback or starts a
\* window only when it has a hazard hit that leaves HP > 0.
C9_LethalHitKillsWithoutKnockback ==
  InstanceSurvived =>
    /\ (\E i \in HazardReports : events[i].hp <= 0) =>
         /\ playerRef.isDead
         /\ playerRef.vel = physOut.vel
         /\ playerRef.invulnerableUntil # timeRef + INVULNERABLE_TICKS
    /\ (\/ playerRef.vel # physOut.vel
        \/ playerRef.invulnerableUntil = timeRef + INVULNERABLE_TICKS) =>
         /\ HasEvent(events, "PlayerDamaged")
         /\ playerRef.hp > 0
         /\ ~playerRef.isDead

C9_LethalHitWhileMoving ==
  /\ InstanceSurvived
  /\ \E i \in HazardReports : events[i].hp <= 0
  /\ playerRef.isDead
  /\ physOut.vel # Rest
  /\ playerRef.vel = physOut.vel

\* C10: in a frame whose player is vulnerable and overlaps a spike or lava
\* entity, the first such entity without a damage attribute leaves the player
\* dead in that tick whatever the HP and the max HP were, and the first such
\* entity with a damage attribute d reports, and leaves, the HP less exactly d.
C10_DamageAmount ==
  [][(/\ physOut'.level >= 0
      /\ HazardsOverlapped' # {}
      /\ (playerRef.isDead \/ physOut'.time > playerRef.invulnerableUntil)) =>
       LET hpBefore == IF playerRef.isDead THEN maxHp ELSE playerRef.hp
           first == CHOOSE i \in HazardsOverlapped' :
                      \A j \in HazardsOverlapped' : i <= j
           h == levels[physOut'.level + 1].entities[first]
       IN IF h.hasDamage
          THEN /\ \E k \in HazardReports' :
                    events'[k] = Ev("Health", h.id, hpBefore - h.damage)
               /\ InstanceSurvived' => playerRef'.hp <= hpBefore - h.damage
               /\ InstanceSurvived' /\ hpBefore > h.damage =>
                    playerRef'.hp = hpBefore - h.damage
          ELSE /\ \E k \in HazardReports' :
                    events'[k].id = h.id /\ events'[k].hp <= 0
               /\ InstanceSurvived' => playerRef'.isDead]_vars

C10_InstantKillBelowMaxHp ==
  /\ InstanceSurvived
  /\ maxHp = TANKY_MAX_HP
  /\ playerRef.isDead
  /\ playerRef.hp = TANKY_MAX_HP - 25 - DEFAULT_DAMAGE
  /\ HazardsOverlapped # {}

\* the level of the core, and its entities where the last tick put them
coreLevel == arenas[core.arena]

coreEntities == Placed(coreLevel, core.epos).entities

Ticked == core # NoCore /\ core.time > 0

\* C11: after the horizontal collision pass of every tick the player is
\* inside the level: 0 <= pos.x <= level.width - size.x.
C11_InsideLevelAfterHorizontalPass ==
  Ticked =>
    /\ core.obs.afterX.pos.x >= 0
    /\ core.obs.afterX.pos.x <= coreLevel.width - core.obs.afterX.size.x

\* C12 as stated: the player is dead after every tick whose vertical
\* displacement left its bottom edge (pos.y + size.y) beyond the level height.
C12_DeadWhenBottomEdgeBelowLevel ==
  Ticked /\ core.obs.yMoved.pos.y + core.obs.yMoved.size.y > coreLevel.height
    => core.player.isDead

\* C12 amended: the player is dead after every tick whose vertical
\* displacement left its top edge (pos.y) beyond the level height, whatever
\* its HP and its invulnerability window.
C12_DeadWhenTopEdgeBelowLevel ==
  Ticked /\ core.obs.yMoved.pos.y > coreLevel.height => core.player.isDead

C12_FellOutHurtAndInvulnerable ==
  /\ Ticked
  /\ core.obs.yMoved.pos.y > coreLevel.height
  /\ ~core.obs.before.isDead
  /\ core.player.isDead
  /\ core.player.hp = core.maxHp - 25
  /\ core.time <= core.player.invulnerableUntil

\* C13: an entity with a patrol attribute whose moveSpeed is 0 is at every
\* tick where the level put it.
C13_ZeroSpeedPatrolStays ==
  core # NoCore =>
    \A i \in 1..Len(coreLevel.entities) :
      coreLevel.entities[i].hasPatrol /\ coreLevel.entities[i].moveSpeed = 0
        => core.epos[i].pos = coreLevel.entities[i].pos

\* C14: after tick t, reached tick by tick through inputs, deaths and
\* respawns, every patrol entity is where one step to t of a fresh entity of
\* the level puts it, and its start position is the one the level gave it.
C14_PatrolPositionIsFunctionOfTick ==
  Ticked =>
    \A i \in 1..Len(coreLevel.entities) :
      coreLevel.entities[i].hasPatrol =>
        /\ core.epos[i].pos =
             MoveEntity(coreLevel.entities[i], NewPlacement(coreLevel)[i],
                        core.time).pos
        /\ core.epos[i].startPos = coreLevel.entities[i].pos

C14_PatrolAfterRespawn ==
  /\ Ticked
  /\ core.time >= 3
  /\ core.obs.respawned
  /\ \E i \in 1..Len(coreLevel.entities) :
       /\ coreLevel.entities[i].hasPatrol
       /\ core.epos[i].pos # core.epos[i].startPos

\* C15: no tick moves an entity that has no patrol attribute.
C15_EntityWithoutPatrolNeverMoves ==
  [][core # NoCore =>
       \A i \in 1..Len(coreLevel.entities) :
         ~coreLevel.entities[i].hasPatrol =>
           /\ core'.epos[i] = core.epos[i]
           /\ core.epos[i].pos = coreLevel.entities[i].pos]_vars

C15_BouncedOffPad ==
  /\ Ticked
  /\ core.obs.afterY.vel.y = BOUNCE_FORCE
  /\ core.epos[2].pos = coreLevel.entities[2].pos
  /\ core.epos[3].pos # coreLevel.entities[3].pos

\* the spawn rectangle of the level
SpawnRect(level) ==
  [pos |-> level.spawnPos, size |-> Vec(PLAYER_SIZE * UNIT, PLAYER_SIZE * UNIT)]

\* the fixed platforms and pads that share a column with the spawn rectangle
\* and begin at or below its bottom edge
BelowSpawn(level) ==
  {i \in 1..Len(level.entities) :
     LET e == level.entities[i]
         r == SpawnRect(level)
     IN /\ Obstacle(e) /\ ~e.hasPatrol
        /\ r.pos.x < e.pos.x + e.size.x /\ r.pos.x + r.size.x > e.pos.x
        /\ e.pos.y >= r.pos.y + r.size.y}

\* the platforms directly below the spawn: under its whole width, with no
\* fixed platform or pad of the column beginning higher
FloorsBelowSpawn(level) ==
  {i \in BelowSpawn(level) :
     LET e == level.entities[i]
         r == SpawnRect(level)
     IN /\ e.type = "platform"
        /\ e.pos.x <= r.pos.x /\ r.pos.x + r.size.x <= e.pos.x + e.size.x
        /\ \A j \in BelowSpawn(level) : level.entities[j].pos.y >= e.pos.y}

RestingOn(e) ==
  /\ core.player.isGrounded
  /\ core.player.vel.y = 0
  /\ core.player.jumpsRemaining = CURRENT_MAX_JUMPS(core.mods)
  /\ core.player.pos.y + core.player.size.y = e.pos.y

\* C16: left at its spawn with no input, a player with a platform directly
\* below eventually rests on that platform (grounded, vertical velocity 0,
\* full jump count, bottom edge on the platform top) and keeps that state
\* at the end of every later tick.
C16_IdlePlayerComesToRest ==
  <>[](core # NoCore =>
         \A i \in FloorsBelowSpawn(coreLevel) : RestingOn(coreLevel.entities[i]))

C16_RestedAfterFall ==
  /\ Ticked
  /\ core.arena = 3
  /\ core.time >= 10
  /\ core.obs.before.vel.y > 0
  /\ \E i \in FloorsBelowSpawn(coreLevel) : RestingOn(coreLevel.entities[i])

\* the obstacle loop of the last tick took the bounce branch
Bounced ==
  \E k \in 1..Len(core.obs.contacts) : core.obs.contacts[k].branch = "bounce"

\* C17 as stated: a tick in which the falling player collides with a bouncy
\* entity ends its vertical pass with the bounce force as vertical
\* velocity, not grounded, with the full jump count.
C17_BounceSetsBounceForce ==
  Ticked /\ core.obs.yMoved.vel.y > 0 /\ Bounced =>
    /\ core.obs.afterY.vel.y = BOUNCE_FORCE
    /\ ~core.player.isGrounded
    /\ core.player.jumpsRemaining = CURRENT_MAX_JUMPS(core.mods)

\* C17 amended: a tick in which the falling player collides with a bouncy
\* entity ends not grounded and with the full jump count, and its vertical
\* pass ends with the bounce force as vertical velocity unless an entity
\* later in entity order was resolved after the bounce.
C17_BounceUnlessLaterContact ==
  Ticked /\ core.obs.yMoved.vel.y > 0 /\ Bounced =>
    /\ ~core.player.isGrounded
    /\ ~core.obs.afterY.isGrounded
    /\ core.player.jumpsRemaining = CURRENT_MAX_JUMPS(core.mods)
    /\ core.obs.contacts[Len(core.obs.contacts)].branch = "bounce"
         => core.obs.afterY.vel.y = BOUNCE_FORCE

C17_BouncedOffPadAlone ==
  /\ Ticked
  /\ core.obs.yMoved.vel.y > 0
  /\ core.obs.keys.right
  /\ Len(core.obs.contacts) = 1
  /\ Bounced
  /\ core.obs.afterY.vel.y = BOUNCE_FORCE
  /\ ~core.player.isGrounded

\* C20: a tick that begins with the dead flag set respawns before anything
\* else: the player it hands to the crouch step is at the active checkpoint
\* that was active when the tick began, with velocity (0,0), HP = max HP,
\* full jump count, invulnerability cleared and dead = false, and the tick
\* emits exactly one PlayerDied; a tick that begins alive emits none.
C20_DeathResolvedAtNextTick ==
  Ticked =>
    /\ core.obs.respawned = core.obs.before.isDead
    /\ CountEvents(core.ev, "PlayerDied") =
         (IF core.obs.before.isDead THEN 1 ELSE 0)
    /\ ~core.obs.afterRespawn.isDead
    /\ core.obs.before.isDead =>
         /\ core.obs.afterRespawn.pos = core.obs.checkpoint
         /\ core.obs.afterRespawn.vel = Vec(0, 0)
         /\ core.obs.afterRespawn.hp = core.maxHp
         /\ core.obs.afterRespawn.jumpsRemaining = CURRENT_MAX_JUMPS(core.mods)
         /\ core.obs.afterRespawn.invulnerableUntil = 0

C20_RespawnedAfterLavaJump ==
  /\ Ticked
  /\ core.obs.respawned
  /\ core.obs.before.hp < 0
  /\ core.obs.before.jumpsRemaining < CURRENT_MAX_JUMPS(core.mods)
  /\ core.obs.before.vel # Vec(0, 0)
  /\ core.obs.checkpoint # coreLevel.spawnPos
  /\ core.obs.afterRespawn.pos = core.obs.checkpoint

\* C18: from all modifiers off, no sequence of toggles leaves heavy gravity
\* on together with low gravity or with oldSchool: a toggle that switches
\* heavy gravity on leaves both off, one that switches low gravity or
\* oldSchool on leaves heavy gravity off.
C18_HeavyGravityExclusive ==
  [][/\ ~(modifiers["highGravity"] /\ modifiers["lowGravity"])
     /\ ~(modifiers["highGravity"] /\ modifiers["oldSchool"])
     /\ ~modifiers["highGravity"] /\ modifiers'["highGravity"]
          => ~modifiers'["lowGravity"] /\ ~modifiers'["oldSchool"]
     /\ \A k \in {"lowGravity", "oldSchool"} :
          ~modifiers[k] /\ modifiers'[k] => ~modifiers'["highGravity"]]_vars

C18_HeavyGravityAfterToggles ==
  /\ modifiers["highGravity"]
  /\ modifiers["tanky"]
  /\ ~modifiers["lowGravity"]
  /\ ~modifiers["oldSchool"]
  /\ runs > 0
  /\ gameState.status = "menu"

\* C19: every start of a run from the menu, whatever the session held before,
\* leaves lives 1 with hardcore and 3 without, HP 150 with tanky and 100
\* without, coins and score 0, the collected set and the level-start snapshot
\* empty, per-level deaths and restarts 0; handleStartGame leaves level
\* index 0, handleSelectLevel(index) leaves index.
C19_RunStartResetsSession ==
  [][/\ gameState.status = "menu" /\ gameState'.status = "playing" =>
          /\ gameState'.lives = (IF modifiers["hardcore"] THEN 1 ELSE 3)
          /\ currentHp' = (IF modifiers["tanky"] THEN 150 ELSE 100)
          /\ currentHp' = maxHp'
          /\ gameState'.coins = 0
          /\ gameState'.score = 0
          /\ collectedCoinIds' = {}
          /\ savedGameState' = [coins |-> 0, collectedCoinIds |-> {}]
          /\ levelDeaths' = 0
          /\ levelRestarts' = 0
          /\ gameState'.currentLevelIndex \in 0..(NumLevels - 1)
     /\ handleStartGame => gameState'.currentLevelIndex = 0
     /\ \A index \in 0..(NumLevels - 1) :
          BeginRun(index) => gameState'.currentLevelIndex = index]_vars

C19_SecondRunAfterProgress ==
  /\ runs = 2
  /\ timers > 0
  /\ isPaused
  /\ modifiers["hardcore"]
  /\ gameState.status = "playing"
  /\ gameState.lives = 1
  /\ gameState.score = 0
  /\ events = <<Ev("Mount", "", 0)>>

\* C21: the jump latch is set only by a jump key-down that is no key repeat
\* and is false after every executed tick, whether or not the tick granted
\* a jump; a tick grants at most one jump, and only if the latch was set
\* when it began, so the jumps granted never outnumber the presses.
C21_JumpLatchConsumedOnce ==
  [][core # NoCore =>
       /\ core.jumps <= core.presses
       /\ core'.time # core.time =>
            /\ ~core'.jumpRequested
            /\ core'.jumps <= core.jumps + 1
            /\ core'.jumps > core.jumps => core.jumpRequested
            /\ core'.presses = core.presses
       /\ core'.time = core.time =>
            /\ core'.jumps = core.jumps
            /\ core'.jumpRequested # core.jumpRequested =>
                 /\ core'.jumpRequested
                 /\ core'.presses = core.presses + 1]_vars

C21_PressIgnoredWithoutJumps ==
  /\ Ticked
  /\ core.time >= 2
  /\ core.presses >= 3
  /\ core.jumps = 1
  /\ core.obs.before.jumpsRemaining = 0
  /\ core.player.jumpsRemaining = 0
  /\ ~core.jumpRequested

\* the checkpoint entities of the level the last frame ran in that its
\* player rectangle overlaps
CheckpointsOverlapped(phys) ==
  IF phys.level < 0 THEN {}
  ELSE {i \in 1..Len(levels[phys.level + 1].entities) :
          /\ levels[phys.level + 1].entities[i].type = "checkpoint"
          /\ checkCollision(PlayerRect(phys), levels[phys.level + 1].entities[i])}

\* C22: a frame that respawns the player puts it at the active checkpoint;
\* if lives remain the instance goes on with that checkpoint (or the
\* checkpoint entity the respawned player touches in that frame), and if
\* the death exhausted the lives the new instance of the level starts with
\* the active checkpoint and the player at the level spawn, at tick 0.
C22_CheckpointSurvivesDeathNotRestart ==
  [][Mounted /\ ~Paused /\ playerRef.isDead /\ HasEvent(events', "PlayerDied") =>
       /\ physOut'.from = checkpointRef
       /\ (resetKey' = resetKey /\ timeRef' = timeRef + 1) =>
            \/ checkpointRef' = checkpointRef
            \/ \E i \in CheckpointsOverlapped(physOut') :
                 checkpointRef' = currentLevel.entities[i].pos
       /\ resetKey' # resetKey =>
            /\ gameState'.currentLevelIndex = gameState.currentLevelIndex
            /\ checkpointRef' = currentLevel.spawnPos
            /\ playerRef'.pos = currentLevel.spawnPos
            /\ timeRef' = 0]_vars

C22_RestartedFromCheckpoint ==
  /\ HasEvent(events, "PlayerDied")
  /\ HasEvent(events, "Mount")
  /\ levelRestarts >= 1
  /\ physOut.level = gameState.currentLevelIndex
  /\ physOut.from # currentLevel.spawnPos
  /\ checkpointRef = currentLevel.spawnPos
  /\ playerRef.pos = currentLevel.spawnPos

\* C23: a level instance that has run no tick holds one entity per entity of
\* the level template; a coin is collected and inactive exactly when its id
\* is in the collected set handed to the instance, every other entity is
\* active and not collected.
C23_EntitiesInstantiatedFromTemplate ==
  Mounted /\ timeRef = 0 =>
    /\ DOMAIN entitiesRef = DOMAIN currentLevel.entities
    /\ \A i \in DOMAIN entitiesRef :
         LET e == currentLevel.entities[i]
             had == e.type = "coin" /\ e.id \in collectedCoinIds
         IN /\ entitiesRef[i].collected = had
            /\ entitiesRef[i].active = ~had

\* a level restarted after its coin was collected and kept: the new instance
\* holds that coin inactive
C23_RestartedWithCollectedCoin ==
  /\ Mounted
  /\ timeRef = 0
  /\ levelRestarts >= 1
  /\ HasEvent(events, "Mount")
  /\ \E i \in DOMAIN entitiesRef :
       /\ currentLevel.entities[i].type = "coin"
       /\ currentLevel.entities[i].id \in collectedCoinIds
       /\ ~entitiesRef[i].active
  /\ \E i \in DOMAIN entitiesRef :
       /\ currentLevel.entities[i].type = "coin"
       /\ entitiesRef[i].active

\* C24: a frame that emits LevelCompleted adds the level score, computed
\* from the per-level restarts and deaths and the modifiers, to the
\* cumulative score once; on a level that is not the last it advances the
\* level index by one, zeroes the per-level deaths and restarts and leaves
\* the status level_transition; on the last level it leaves the status
\* victory and the level index as it was.
C24_LevelCompletedAdvancesOrWins ==
  [][HasEvent(events', "LevelCompleted") =>
       /\ CountEvents(events', "LevelCompleted") = 1
       /\ gameState'.score =
            gameState.score + levelScore(levelRestarts, levelDeaths, modifiers).points
       /\ IF gameState.currentLevelIndex + 1 < NumLevels
          THEN /\ gameState'.currentLevelIndex = gameState.currentLevelIndex + 1
               /\ levelDeaths' = 0
               /\ levelRestarts' = 0
               /\ gameState'.status = "level_transition"
          ELSE /\ gameState'.status = "victory"
               /\ gameState'.currentLevelIndex = gameState.currentLevelIndex]_vars

\* a level that is not the last completed after a death and a restart on it
C24_CompletedAfterDeathsAndRestart ==
  /\ HasEvent(events, "LevelCompleted")
  /\ gameState.status = "level_transition"
  /\ award.deaths >= 1
  /\ award.restarts >= 1
  /\ levelDeaths = 0
  /\ levelRestarts = 0
  /\ gameState.score = award.points

\* C25: while the pause flag of the mounted canvas is set (the user paused,
\* or the status is level_transition), a step that leaves the canvas mounted
\* changes none of its tick counter, player, entities, active checkpoint and
\* finish latch, and emits no event.
C25_PausedFrameChangesNothing ==
  [][/\ Mounted
     /\ isPaused \/ gameState.status = "level_transition"
     /\ Mounted'
     => /\ UNCHANGED <<playerRef, checkpointRef, timeRef,
                       levelCompleteTriggered, entitiesRef>>
        /\ UNCHANGED <<collectedCoinIds, levelDeaths, currentHp>>
        /\ gameState'.coins = gameState.coins
        /\ gameState'.lives = gameState.lives
        /\ gameState'.currentLevelIndex = gameState.currentLevelIndex
        /\ events' = <<>>]_vars

\* the user paused while the player was moving and a frame has passed
C25_PausedInFlight ==
  /\ gameState.status = "playing"
  /\ isPaused
  /\ timeRef >= 1
  /\ playerRef.vel # Rest
  /\ events = <<>>
  /\ physOut = NoPhys

\* C26: at any time at most one frame callback is requested, it belongs to
\* the current instance of the game loop of a mounted canvas, and no
\* callback of an instance that was torn down has ever run.
C26_TeardownCancelsCallback ==
  /\ Cardinality(loop.pending) <= 1
  /\ \A c \in loop.pending :
       /\ loop.mounted
       /\ c.owner = loop.owner
  /\ loop.ran # 0 => loop.ran <= loop.owner
  /\ ~loop.stale

\* a second canvas whose loop, re-subscribed at least once, has ticked after
\* ticks of the loops torn down before it
C26_TickedAfterTeardowns ==
  /\ loop.mounted
  /\ loop.canvas >= 2
  /\ loop.owner >= 3
  /\ loop.ran = loop.owner
  /\ loop.ticks >= 3
  /\ loop.pending # {}

\* the full-height rectangle at the feet of the crouched player p
StandProbe(p) ==
  [pos |-> Vec(p.pos.x, p.pos.y + p.size.y - PLAYER_SIZE * UNIT),
   size |-> Vec(PLAYER_SIZE * UNIT, PLAYER_SIZE * UNIT)]

\* the entities of the given types that the rectangle overlaps
Overlapped(rect, ents, types) ==
  {i \in 1..Len(ents) : ents[i].type \in types /\ checkCollision(rect, ents[i])}

\* C27: in a tick that a crouched player enters with the crouch input
\* released, the crouch step stands the player up (full height, feet where
\* they were) exactly when the full-height rectangle at its feet overlaps no
\* platform and no bouncy entity, whatever hazard it overlaps; otherwise it
\* leaves the player crouched, its height and position as they were; the
\* rest of the tick leaves the crouch state as the crouch step set it.
C27_StandsUpOnlyWhenProbeClear ==
  [][core # NoCore /\ core'.time = core.time + 1
     /\ core'.obs.afterRespawn.isCrouching /\ ~core'.obs.keys.crouch =>
       LET p == core'.obs.afterRespawn
           a == core'.obs.afterCrouch
           ents == Placed(arenas[core.arena], core'.epos).entities
           blocked == Overlapped(StandProbe(p), ents, {"platform", "bouncy"}) # {}
       IN /\ p.size.y = CROUCH_HEIGHT * UNIT
          /\ IF blocked
             THEN a = p
             ELSE /\ ~a.isCrouching
                  /\ a.size = Vec(PLAYER_SIZE * UNIT, PLAYER_SIZE * UNIT)
                  /\ a.pos = StandProbe(p).pos
          /\ core'.player.isCrouching = a.isCrouching
          /\ core'.player.size = a.size]_vars

\* the crouch input released under the platform or the pad: the player is
\* still crouched
C27_HeldDownUnderBeam ==
  /\ core # NoCore
  /\ core.time >= 2
  /\ ~core.obs.keys.crouch
  /\ core.obs.afterRespawn.isCrouching
  /\ core.obs.afterCrouch.isCrouching
  /\ core.player.isCrouching
  /\ ~core.player.isDead

\* C28: the timers of handleLevelComplete all run 2000 ms, so they fire
\* oldest first.  A transition lasts until the timer its own completion
\* started fires: when a timer ends a transition no older one was pending
\* with it; and a timer that fires outside level_transition leaves the
\* status as it is.
C28_TransitionLastsItsOwnTimer ==
  [][timers' = timers - 1 =>
       /\ (gameState.status = "level_transition"
              /\ gameState'.status # "level_transition") => timers = 1
       /\ gameState.status # "level_transition" =>
            gameState'.status = gameState.status]_vars

\* C29: the frame that completes a level that is not the last stores as the
\* snapshot the coin counter and the collected set the session has once all
\* events of that frame are applied, so that the snapshot's coin count is
\* the size of the snapshot's collected set.
C29_SnapshotIsSessionAfterTick ==
  [][/\ HasEvent(events', "LevelCompleted")
     /\ gameState.currentLevelIndex + 1 < NumLevels
     => /\ savedGameState'.coins = gameState'.coins
        /\ savedGameState'.collectedCoinIds = collectedCoinIds'
        /\ savedGameState'.coins =
             Cardinality(savedGameState'.collectedCoinIds)]_vars

\* the positions of the checkpoint entities of level idx
CheckpointPositions(idx) ==
  {levels[idx + 1].entities[i].pos :
     i \in {j \in 1..Len(levels[idx + 1].entities) :
              levels[idx + 1].entities[j].type = "checkpoint"}}

\* C30: the active checkpoint of a mounted instance is the level spawn or
\* the position of a checkpoint entity of its level.  A tick in which the
\* player overlaps a checkpoint entity leaves that entity's position as the
\* active checkpoint, and signals CheckpointReached only if the active
\* checkpoint was another position; any other step of the same instance
\* leaves the active checkpoint as it was and signals nothing.
C30_CheckpointSetOnlyByTouch ==
  [][/\ Mounted' =>
          checkpointRef' \in
            {levels[gameState'.currentLevelIndex + 1].spawnPos}
              \cup CheckpointPositions(gameState'.currentLevelIndex)
     /\ (/\ Mounted /\ Mounted'
         /\ resetKey' = resetKey
         /\ gameState'.currentLevelIndex = gameState.currentLevelIndex) =>
          LET touched == IF timeRef' = timeRef + 1
                         THEN CheckpointsOverlapped(physOut') ELSE {}
          IN /\ \A i \in touched : checkpointRef' = currentLevel.entities[i].pos
             /\ touched = {} => checkpointRef' = checkpointRef
             /\ HasEvent(events', "CheckpointReached") =>
                  /\ touched # {}
                  /\ checkpointRef' # checkpointRef]_vars

\* the checkpoint touched again after it became the active one: no signal
C30_TouchedActiveCheckpointAgain ==
  /\ Mounted
  /\ timeRef >= 2
  /\ CheckpointsOverlapped(physOut) # {}
  /\ checkpointRef # currentLevel.spawnPos
  /\ checkpointRef # physOut.pos
  /\ ~HasEvent(events, "CheckpointReached")
  /\ ~HasEvent(events, "PlayerDied")

\* C31: in a tick that finds the jump latch set, a player with a jump left
\* enters the collision passes with the modifier-scaled jump force as its
\* vertical velocity and one jump less; a player with no jump left enters
\* them with the velocity gravity alone gave it and no jump still.  After
\* every tick 0 <= jumpsRemaining <= the maximum of the modifiers.
C31_JumpSetsForceAndSpendsOne ==
  [][core # NoCore /\ core'.time = core.time + 1 =>
       LET p == core'.obs.afterRespawn
           m == core'.obs.afterMove
           maxJumps == IF core.mods["oldSchool"] THEN 1 ELSE 2
           fallen == Min(p.vel.y + EFFECTIVE_GRAVITY(core.mods), MAX_FALL_SPEED)
       IN /\ core'.player.jumpsRemaining \in 0..maxJumps
          /\ m.jumpsRemaining \in 0..maxJumps
          /\ core'.obs.afterX.vel.y = m.vel.y
          /\ core.jumpRequested =>
               IF p.jumpsRemaining > 0
               THEN /\ m.vel.y = EFFECTIVE_JUMP_FORCE(core.mods)
                    /\ m.jumpsRemaining = p.jumpsRemaining - 1
               ELSE /\ m.vel.y = fallen
                    /\ m.jumpsRemaining = 0]_vars

\* a jump taken in the air by a falling player: the falling speed is gone
C31_JumpedWhileFalling ==
  /\ core # NoCore
  /\ core.jumps >= 1
  /\ ~core.obs.afterRespawn.isGrounded
  /\ core.obs.afterRespawn.vel.y > 0
  /\ core.obs.afterMove.jumpsRemaining = core.obs.afterRespawn.jumpsRemaining - 1
  /\ core.obs.afterMove.vel.y = EFFECTIVE_JUMP_FORCE(core.mods)

\* the height of the player q is the one of its crouch state
HeightOfStance(q) ==
  q.size = Vec(PLAYER_SIZE * UNIT,
               (IF q.isCrouching THEN CROUCH_HEIGHT ELSE PLAYER_SIZE) * UNIT)

\* C32: a crouch step that enters or leaves the crouch leaves the player's
\* bottom edge (pos.y + size.y) and its pos.x where they were; and the
\* player's height is the crouch height when it is crouching and the full
\* height when it is not, after the respawn step, after the crouch step and
\* at the end of every tick.
C32_FeetPlantedAndHeightOfStance ==
  [][core # NoCore /\ core'.time = core.time + 1 =>
       LET p == core'.obs.afterRespawn
           a == core'.obs.afterCrouch
       IN /\ a.isCrouching # p.isCrouching =>
               /\ a.pos.y + a.size.y = p.pos.y + p.size.y
               /\ a.pos.x = p.pos.x
          /\ HeightOfStance(p)
          /\ HeightOfStance(a)
          /\ HeightOfStance(core'.player)]_vars

\* a player that died crouched, respawned crouched, and then stood up
C32_StoodUpAfterCrouchedRespawn ==
  /\ core # NoCore
  /\ core.obs.respawned
  /\ core.obs.afterRespawn.isCrouching
  /\ core.obs.afterRespawn.pos.x = core.checkpoint.x
  /\ core.obs.before.pos # core.obs.afterRespawn.pos
  /\ ~core.obs.afterCrouch.isCrouching
  /\ ~core.player.isCrouching

\* C33: after every step that leaves the run playing or in transition, the
\* lives are at least 1 and at most the starting lives of the modifiers (1
\* with hardcore, else 3); a frame that completes a level without resolving
\* a death leaves the lives as they were; with hardcore every frame that
\* resolves a death restarts the level.
C33_LivesWithinStartingLives ==
  [][/\ Mounted' =>
          /\ gameState'.lives >= 1
          /\ gameState'.lives <= (IF modifiers'["hardcore"] THEN 1 ELSE 3)
     /\ (HasEvent(events', "LevelCompleted") /\ ~HasEvent(events', "PlayerDied")) =>
          gameState'.lives = gameState.lives
     /\ (modifiers["hardcore"] /\ HasEvent(events', "PlayerDied")) =>
          /\ resetKey' = resetKey + 1
          /\ levelRestarts' = levelRestarts + 1 \/ HasEvent(events', "LevelCompleted")
          /\ gameState'.lives = 1]_vars

\* three deaths without hardcore: the level restarted with the lives refilled
C33_RefilledAfterThirdDeath ==
  /\ Mounted
  /\ ~modifiers["hardcore"]
  /\ gameState.totalDeaths = 3
  /\ levelRestarts = 1
  /\ gameState.lives = INITIAL_LIVES
  /\ HasEvent(events, "PlayerDied")

\* C34: whenever the per-level restart count is 0, the per-level death count
\* is below the starting lives of the modifiers (at most 2, and 0 with
\* hardcore); and no level score was computed from restarts = 0 and
\* deaths > 2, the 10-point fallback of the score lookup.
C34_NoRestartMeansFewDeaths ==
  /\ levelRestarts = 0 =>
       levelDeaths < (IF modifiers["hardcore"] THEN 1 ELSE 3)
  /\ Scored => ~(award.restarts = 0 /\ award.deaths > 2)

\* a level completed after a death on it and no restart, a life short
C34_CompletedAfterDeathWithoutRestart ==
  /\ Scored
  /\ award.restarts = 0
  /\ award.deaths = 1
  /\ gameState.lives = INITIAL_LIVES - 1
  /\ gameState.totalDeaths = 1

\* the coin entities of the levels up to the current one
CoinsSoFar ==
  {e.id : e \in UNION {{levels[l].entities[i] : i \in 1..Len(levels[l].entities)} :
                         l \in 1..(gameState.currentLevelIndex + 1)}}
    \cap CoinIds

\* C35: in every state of a run (playing or in transition) the coin counter
\* is the number of ids in the collected-coin set, and no larger than the
\* number of coin entities of the levels up to the current one.
C35_CoinCounterIsSizeOfCollectedSet ==
  Mounted =>
    /\ gameState.coins = Cardinality(collectedCoinIds)
    /\ gameState.coins <= Cardinality(CoinsSoFar)

\* the frame that emitted evs from the rectangle of phys marked the player
\* dead: a hazard took the last HP, or the player fell out of the level
MarkedDead(evs, phys) ==
  \/ \E i \in 1..Len(evs) :
       evs[i].type = "Health" /\ evs[i].id # "" /\ evs[i].hp <= 0
  \/ phys.level >= 0 /\ FellOut(phys.pos, levels[phys.level + 1])

\* C36: a frame that leaves the player marked dead is followed by a frame
\* that emits exactly one PlayerDied; and every frame that marks the player
\* dead leaves an instance in which the death is still to be resolved, also
\* when it emits LevelCompleted.  A frame that emits PlayerDied counts one
\* death for the level (or the completion zeroes the count) and one for
\* the session, and takes one life or restarts the level.
C36_EveryDeathCountedOnce ==
  [][/\ (Mounted /\ ~Paused /\ playerRef.isDead) =>
          /\ CountEvents(events', "PlayerDied") = 1
          /\ gameState'.totalDeaths = gameState.totalDeaths + 1
          /\ \/ levelDeaths' = levelDeaths + 1
             \/ HasEvent(events', "LevelCompleted") /\ levelDeaths' = 0
          /\ \/ gameState'.lives = gameState.lives - 1
             \/ resetKey' = resetKey + 1
     /\ (Mounted /\ ~playerRef.isDead) => ~HasEvent(events', "PlayerDied")
     /\ MarkedDead(events', physOut') => Mounted' /\ playerRef'.isDead]_vars

\* the spike that kills and the finish overlapped in the same tick
C36_DiedOnTheFinish ==
  /\ MarkedDead(events, physOut)
  /\ HasEvent(events, "LevelCompleted")
  /\ gameState.status = "level_transition"
  /\ gameState.totalDeaths = 0
  /\ levelDeaths = 0
  /\ gameState.lives = startLives(modifiers)
  /\ ~playerRef.isDead

\* C37: the current level index always names a level of the list: it is at
\* least 0 and below the number of levels in every state, in the menu, in a
\* run started on any selected level, between levels and in victory.
C37_LevelIndexValid ==
  /\ gameState.currentLevelIndex >= 0
  /\ gameState.currentLevelIndex < NumLevels

\* the last level was completed: the session is in victory on the last index
C37_VictoryOnLastLevel ==
  /\ gameState.status = "victory"
  /\ gameState.currentLevelIndex = NumLevels - 1
  /\ HasEvent(events, "LevelCompleted")


\* C38: a step that starts a run (handleStartGame or handleSelectLevel: the
\* status goes from menu to playing) leaves the pause flag false, whatever
\* Escape presses and pause-menu exits came before, so the frames of the new
\* run simulate without a further user action.
C38_RunBeginsUnpaused ==
  [][(gameState.status = "menu" /\ gameState'.status = "playing") =>
        /\ ~isPaused'
        /\ ~Paused']_vars


\* C39: the status 'gameover' is never reached: in every state the status is
\* menu, playing, level_transition or victory, also after the death that
\* takes the last life.
C39_NeverGameOver ==
  /\ gameState.status # "gameover"
  /\ gameState.status \in {"menu", "playing", "level_transition", "victory"}

\* the last life was just lost and the level restarted: the run goes on
C39_PlayingAfterLastLife ==
  /\ gameState.status = "playing"
  /\ HasEvent(events, "PlayerDied")
  /\ resetKey > 0
  /\ levelRestarts > 0
  /\ gameState.lives = startLives(modifiers)

=========================================================================
